---------------------------- MODULE Spec2Model ----------------------------
(***************************************************************************)
(* A model of the BIND terminology converter                               *)
(* (scripts/convert-terminologies.ts): the source readers, the code        *)
(* deriver, the deduplicator, the merger, the provenance recorder and the  *)
(* writer, as one state machine that runs the converter over a source      *)
(* tree and an output directory, and runs it again.                        *)
(*                                                                         *)
(* Program strings are sequences of one-character strings, so that the     *)
(* string functions of the converter (prefix stripping, slugs, marker      *)
(* removal, case folding) are modelled by what they do to the characters.  *)
(* The two letters E-acute and e-acute are written "E'" and "e'".          *)
(***************************************************************************)
EXTENDS Integers, Sequences, FiniteSets, TLC

(***************************************************************************)
(* Characters and the JavaScript string primitives the converter uses.     *)
(***************************************************************************)
UpperChars ==
  <<"A","B","C","D","E","F","G","H","I","J","K","L","M",
    "N","O","P","Q","R","S","T","U","V","W","X","Y","Z">>

LowerChars ==
  <<"a","b","c","d","e","f","g","h","i","j","k","l","m",
    "n","o","p","q","r","s","t","u","v","w","x","y","z">>

DigitChars == <<"0","1","2","3","4","5","6","7","8","9">>

RangeOf(s) == { s[i] : i \in DOMAIN s }

UpperSet == RangeOf(UpperChars)

LowerSet == RangeOf(LowerChars)

DigitSet == RangeOf(DigitChars)

\* \s of a JavaScript regular expression, over the characters of the model.
WhiteSet == {" ", "\t", "\n"}

\* String.prototype.toLowerCase on one character.
LowerTable ==
  [c \in UpperSet \cup {"E'"} |->
     IF c = "E'" THEN "e'"
     ELSE LowerChars[CHOOSE i \in DOMAIN UpperChars : UpperChars[i] = c]]

\* String.prototype.toUpperCase on one character.
UpperTable ==
  [c \in LowerSet \cup {"e'"} |->
     IF c = "e'" THEN "E'"
     ELSE UpperChars[CHOOSE i \in DOMAIN LowerChars : LowerChars[i] = c]]

lowerChar(c) == IF c \in DOMAIN LowerTable THEN LowerTable[c] ELSE c

upperChar(c) == IF c \in DOMAIN UpperTable THEN UpperTable[c] ELSE c

toLowerCase(s) == [i \in DOMAIN s |-> lowerChar(s[i])]

startsWith(s, p) == Len(s) >= Len(p) /\ SubSeq(s, 1, Len(p)) = p

\* startsWith under the i flag of a regular expression.
startsWithIgnoreCase(s, p) ==
  Len(s) >= Len(p) /\ toLowerCase(SubSeq(s, 1, Len(p))) = toLowerCase(p)

dropChars(s, n) == SubSeq(s, n + 1, Len(s))

\* The number of leading characters of s that are in the set cs.
RECURSIVE leadingRun(_, _)
leadingRun(s, cs) ==
  IF s # <<>> /\ Head(s) \in cs THEN 1 + leadingRun(Tail(s), cs) ELSE 0

\* The number of trailing characters of s that are in the set cs.
RECURSIVE trailingRun(_, _)
trailingRun(s, cs) ==
  IF s # <<>> /\ s[Len(s)] \in cs
  THEN 1 + trailingRun(SubSeq(s, 1, Len(s) - 1), cs)
  ELSE 0

\* String.prototype.trimStart and trimEnd.
trimStart(s) == dropChars(s, leadingRun(s, WhiteSet))

trimEnd(s) == SubSeq(s, 1, Len(s) - trailingRun(s, WhiteSet))

\* String.prototype.trim.
trim(s) == trimEnd(trimStart(s))

\* s.replace(/pat/g, rep) for a literal pattern pat: leftmost matches, not
\* overlapping, the replacement not scanned again.
RECURSIVE replaceAll(_, _, _)
replaceAll(s, pat, rep) ==
  IF s = <<>> THEN <<>>
  ELSE IF startsWith(s, pat)
       THEN rep \o replaceAll(dropChars(s, Len(pat)), pat, rep)
       ELSE <<Head(s)>> \o replaceAll(Tail(s), pat, rep)

\* s.replace(/[cs]/g, rep): every character of the class cs becomes rep.
RECURSIVE replaceClass(_, _, _)
replaceClass(s, cs, rep) ==
  IF s = <<>> THEN <<>>
  ELSE (IF Head(s) \in cs THEN rep ELSE <<Head(s)>>)
       \o replaceClass(Tail(s), cs, rep)

\* s.replace(/[cs]+/g, rep): every maximal run of characters of cs becomes rep.
RECURSIVE replaceRuns(_, _, _)
replaceRuns(s, cs, rep) ==
  IF s = <<>> THEN <<>>
  ELSE IF Head(s) \in cs
       THEN rep \o replaceRuns(dropChars(s, leadingRun(s, cs)), cs, rep)
       ELSE <<Head(s)>> \o replaceRuns(Tail(s), cs, rep)

(***************************************************************************)
(* Helpers of the converter.                                               *)
(***************************************************************************)
SlugKeepSet == UpperSet \cup LowerSet \cup DigitSet \cup WhiteSet \cup {"-"}

\* The characters a program string of the model may hold.
CharSet == SlugKeepSet \cup {"&", "'", ";", ":", "!", "_", "/", ".", "E'", "e'"}

\* .replace(/^-|-$/g, ""): one leading and one trailing hyphen are removed.
dropLeadingHyphen(s) == IF s # <<>> /\ Head(s) = "-" THEN Tail(s) ELSE s

dropTrailingHyphen(s) ==
  IF s # <<>> /\ s[Len(s)] = "-" THEN SubSeq(s, 1, Len(s) - 1) ELSE s

displayToSlug(display) ==
  dropTrailingHyphen(dropLeadingHyphen(
    replaceRuns(
      toLowerCase(
        replaceRuns(
          replaceClass(
            replaceClass(
              replaceAll(
                replaceAll(display, <<"&","a","m","p",";">>, <<"a","n","d">>),
                <<"&">>, <<"a","n","d">>),
              {"'"}, <<>>),
            CharSet \ SlugKeepSet, <<" ">>),
          WhiteSet, <<"-">>)),
      {"-"}, <<"-">>)))

PrefixCsio == <<"c","s","i","o",":">>

PrefixAcord == <<"a","c","o","r","d",":">>

\* A variant that strips one prefix only.
stripPrefixOnce(code) ==
  IF startsWith(code, PrefixCsio) THEN dropChars(code, Len(PrefixCsio))
  ELSE IF startsWith(code, PrefixAcord) THEN dropChars(code, Len(PrefixAcord))
       ELSE code

RECURSIVE stripPrefix(_)
stripPrefix(code) ==
  IF startsWith(code, PrefixCsio) THEN stripPrefix(dropChars(code, Len(PrefixCsio)))
  ELSE IF startsWith(code, PrefixAcord)
       THEN stripPrefix(dropChars(code, Len(PrefixAcord)))
       ELSE code

isNumericOnly(code) == code # <<>> /\ \A i \in DOMAIN code : code[i] \in DigitSet

MarkerDeprecated == <<"D","E","P","R","E","C","A","T","E","D">>

MarkerDesuet == <<"D","E'","S","U","E","T">>

\* s.replace(/^marker\s*/i, "").
stripMarker(s, marker) ==
  IF startsWithIgnoreCase(s, marker)
  THEN trimStart(dropChars(s, Len(marker)))
  ELSE s

cleanDisplay(display) ==
  trim(stripMarker(stripMarker(display, MarkerDeprecated), MarkerDesuet))

\* An absent (undefined) optional field.
Absent == <<"#undefined">>

\* JavaScript truthiness of an optional string: undefined and "" are falsy.
truthy(s) == s # Absent /\ s # <<>>

\* slug || stripped
slugOr(slug, stripped) == IF slug # <<>> THEN slug ELSE stripped

\* deriveBINDCode, from the stripped code on.
deriveFromStripped(stripped, display) ==
  IF isNumericOnly(stripped) /\ truthy(display)
  THEN slugOr(displayToSlug(cleanDisplay(display)), stripped)
  ELSE stripped

deriveBINDCode(sourceCode, display) ==
  deriveFromStripped(stripPrefix(sourceCode), display)

(***************************************************************************)
(* Identifier helpers.                                                     *)
(***************************************************************************)
\* .replace(/([a-z0-9])([A-Z])/g, "$1-$2")
RECURSIVE kebabLowerUpper(_)
kebabLowerUpper(s) ==
  IF s = <<>> THEN <<>>
  ELSE IF Len(s) >= 2 /\ s[1] \in LowerSet \cup DigitSet /\ s[2] \in UpperSet
       THEN <<s[1], "-", s[2]>> \o kebabLowerUpper(dropChars(s, 2))
       ELSE <<Head(s)>> \o kebabLowerUpper(Tail(s))

\* .replace(/([A-Z]+)([A-Z][a-z])/g, "$1-$2"): a run of two or more capitals
\* that a lower-case letter follows is split before its last capital.
RECURSIVE kebabUpperRun(_)
kebabUpperRun(s) ==
  IF s = <<>> THEN <<>>
  ELSE LET r == leadingRun(s, UpperSet)
       IN  IF r >= 2 /\ Len(s) > r /\ s[r + 1] \in LowerSet
           THEN SubSeq(s, 1, r - 1) \o <<"-", s[r], s[r + 1]>>
                \o kebabUpperRun(dropChars(s, r + 1))
           ELSE <<Head(s)>> \o kebabUpperRun(Tail(s))

toKebabCase(name) ==
  toLowerCase(
    replaceRuns(kebabUpperRun(kebabLowerUpper(name)), WhiteSet \cup {"_"}, <<"-">>))

\* String.prototype.split on one separator character.
RECURSIVE split(_, _)
split(s, sep) ==
  IF \E i \in DOMAIN s : s[i] = sep
  THEN LET i == CHOOSE j \in DOMAIN s : s[j] = sep /\ \A k \in 1..(j - 1) : s[k] # sep
       IN  <<SubSeq(s, 1, i - 1)>> \o split(dropChars(s, i), sep)
  ELSE <<s>>

\* Array.prototype.join.
RECURSIVE join(_, _)
join(parts, sep) ==
  IF parts = <<>> THEN <<>>
  ELSE IF Len(parts) = 1 THEN parts[1]
       ELSE parts[1] \o sep \o join(Tail(parts), sep)

\* s.charAt(0).toUpperCase() + s.slice(1)
capitalize(s) == IF s = <<>> THEN <<>> ELSE <<upperChar(s[1])>> \o Tail(s)

\* parts.map((s) => s.charAt(0).toUpperCase() + s.slice(1))
capitalizeAll(parts) == [i \in DOMAIN parts |-> capitalize(parts[i])]

toPascalCase(kebab) == join(capitalizeAll(split(kebab, "-")), <<>>)

toTitle(kebab) == join(capitalizeAll(split(kebab, "-")), <<" ">>)

generateDefinition(display, codeSystemTitle) ==
  cleanDisplay(display) \o <<" ","\\u2014"," ">> \o toLowerCase(codeSystemTitle)
    \o <<" ","c","o","d","e",".">>

(***************************************************************************)
(* Source file names and code-system ids.                                  *)
(***************************************************************************)
TOP_LEVEL_ID_MAP ==
  {
    <<<<"l","i","n","e","s","-","o","f","-","b","u","s","i","n","e","s","s">>,
      <<"l","i","n","e","-","o","f","-","b","u","s","i","n","e","s","s">>>>,
    <<<<"c","o","n","s","t","r","u","c","t","i","o","n","-","t","y","p","e","s">>,
      <<"c","o","n","s","t","r","u","c","t","i","o","n","-","t","y","p","e">>>>,
    <<<<"l","o","s","s","-","c","a","u","s","e","-","c","o","d","e","s">>,
      <<"l","o","s","s","-","c","a","u","s","e">>>>,
    <<<<"c","o","v","e","r","a","g","e","-","o","p","t","i","o","n","s">>,
      <<"c","o","v","e","r","a","g","e","-","o","p","t","i","o","n">>>>,
    <<<<"c","o","m","m","o","d","i","t","y","-","c","o","d","e","s">>,
      <<"c","o","m","m","o","d","i","t","y","-","c","o","d","e">>>>,
    <<<<"c","o","n","v","i","c","t","i","o","n","-","c","o","d","e","s">>,
      <<"c","o","n","v","i","c","t","i","o","n","-","c","o","d","e">>>>,
    <<<<"d","r","i","v","i","n","g","-","r","e","c","o","r","d","-","c","o","d","e","s">>,
      <<"d","r","i","v","i","n","g","-","r","e","c","o","r","d","-","c","o","d","e">>>>,
    <<<<"e","x","p","o","s","u","r","e","-","t","y","p","e","s">>,
      <<"e","x","p","o","s","u","r","e","-","t","y","p","e">>>>,
    <<<<"o","c","c","u","p","a","n","c","y","-","t","y","p","e","s">>,
      <<"o","c","c","u","p","a","n","c","y","-","t","y","p","e">>>>,
    <<<<"o","c","c","u","p","a","t","i","o","n","-","c","l","a","s","s","e","s">>,
      <<"o","c","c","u","p","a","t","i","o","n","-","c","l","a","s","s">>>>,
    <<<<"p","o","l","i","c","y","-","s","t","a","t","u","s","-","c","o","d","e","s">>,
      <<"p","o","l","i","c","y","-","s","t","a","t","u","s">>>>,
    <<<<"p","o","l","i","c","y","-","t","y","p","e","s">>,
      <<"p","o","l","i","c","y","-","t","y","p","e">>>>,
    <<<<"p","r","e","m","i","u","m","-","b","a","s","e","-","c","o","d","e","s">>,
      <<"p","r","e","m","i","u","m","-","b","a","s","e">>>>,
    <<<<"p","r","o","d","u","c","e","r","-","r","o","l","e","s">>,
      <<"p","r","o","d","u","c","e","r","-","r","o","l","e">>>>,
    <<<<"p","r","o","t","e","c","t","i","o","n","-","d","e","v","i","c","e","s">>,
      <<"p","r","o","t","e","c","t","i","o","n","-","d","e","v","i","c","e">>>>,
    <<<<"r","i","s","k","-","t","y","p","e","s">>,
      <<"r","i","s","k","-","t","y","p","e">>>>,
    <<<<"r","o","l","e","-","t","y","p","e","s">>,
      <<"r","o","l","e","-","t","y","p","e">>>>,
    <<<<"s","u","b","-","r","i","s","k","-","t","y","p","e","s">>,
      <<"s","u","b","-","r","i","s","k","-","t","y","p","e">>>>,
    <<<<"u","n","d","e","r","w","r","i","t","i","n","g","-","q","u","e","s","t","i","o","n","s">>,
      <<"u","n","d","e","r","w","r","i","t","i","n","g","-","q","u","e","s","t","i","o","n">>>>,
    <<<<"v","e","h","i","c","l","e","-","b","o","d","y","-","t","y","p","e","s">>,
      <<"v","e","h","i","c","l","e","-","b","o","d","y","-","t","y","p","e">>>>,
    <<<<"v","e","h","i","c","l","e","-","s","p","e","c","i","a","l","-","u","s","e">>,
      <<"v","e","h","i","c","l","e","-","s","p","e","c","i","a","l","-","u","s","e">>>>,
    <<<<"c","o","v","e","r","a","g","e","s">>,
      <<"c","o","v","e","r","a","g","e">>>>,
    <<<<"c","l","a","i","m","s","-","p","a","r","t","y","-","r","o","l","e","s">>,
      <<"c","l","a","i","m","s","-","p","a","r","t","y","-","r","o","l","e">>>>,
    <<<<"i","n","s","u","r","e","d","-","p","r","i","n","c","i","p","a","l","-","r","o","l","e","s">>,
      <<"i","n","s","u","r","e","d","-","p","r","i","n","c","i","p","a","l","-","r","o","l","e">>>>,
    <<<<"e","l","e","c","t","r","i","c","a","l","-","p","r","o","t","e","c","t","i","o","n">>,
      <<"e","l","e","c","t","r","i","c","a","l","-","p","r","o","t","e","c","t","i","o","n">>>>,
    <<<<"m","e","r","c","a","n","t","i","l","e","-","b","u","s","i","n","e","s","s","-","t","y","p","e","s">>,
      <<"m","e","r","c","a","n","t","i","l","e","-","b","u","s","i","n","e","s","s","-","t","y","p","e">>>>,
    <<<<"n","a","t","u","r","e","-","o","f","-","b","u","s","i","n","e","s","s">>,
      <<"n","a","t","u","r","e","-","o","f","-","b","u","s","i","n","e","s","s">>>>
  }

CODE_LIST_TO_TOP_LEVEL ==
  {
    <<<<"L","i","n","e","O","f","B","u","s","i","n","e","s","s">>,
      <<"l","i","n","e","-","o","f","-","b","u","s","i","n","e","s","s">>>>,
    <<<<"L","i","n","e","O","f","B","u","s","i","n","e","s","s","S","u","b","C","o","d","e">>,
      <<"l","i","n","e","-","o","f","-","b","u","s","i","n","e","s","s","-","s","u","b","-","c","o","d","e">>>>,
    <<<<"B","r","o","a","d","L","i","n","e","B","u","s","i","n","e","s","s">>,
      <<"b","r","o","a","d","-","l","i","n","e","-","b","u","s","i","n","e","s","s">>>>,
    <<<<"C","o","n","s","t","r","u","c","t","i","o","n","T","y","p","e">>,
      <<"c","o","n","s","t","r","u","c","t","i","o","n","-","t","y","p","e">>>>,
    <<<<"C","a","u","s","e","O","f","L","o","s","s">>,
      <<"c","a","u","s","e","-","o","f","-","l","o","s","s">>>>,
    <<<<"R","o","o","f","M","a","t","e","r","i","a","l","T","y","p","e">>,
      <<"r","o","o","f","-","m","a","t","e","r","i","a","l","-","t","y","p","e">>>>,
    <<<<"R","o","o","f","G","e","o","m","e","t","r","y","T","y","p","e">>,
      <<"r","o","o","f","-","g","e","o","m","e","t","r","y","-","t","y","p","e">>>>,
    <<<<"R","o","o","f","C","o","v","e","r","A","t","t","a","c","h","m","e","n","t">>,
      <<"r","o","o","f","-","c","o","v","e","r","-","a","t","t","a","c","h","m","e","n","t">>>>,
    <<<<"R","o","o","f","D","e","c","k","A","t","t","a","c","h","m","e","n","t">>,
      <<"r","o","o","f","-","d","e","c","k","-","a","t","t","a","c","h","m","e","n","t">>>>,
    <<<<"R","o","o","f","D","e","c","k","M","a","t","e","r","i","a","l">>,
      <<"r","o","o","f","-","d","e","c","k","-","m","a","t","e","r","i","a","l">>>>,
    <<<<"R","o","o","f","W","a","l","l","A","t","t","a","c","h","m","e","n","t">>,
      <<"r","o","o","f","-","w","a","l","l","-","a","t","t","a","c","h","m","e","n","t">>>>,
    <<<<"V","e","h","i","c","l","e","B","o","d","y","T","y","p","e">>,
      <<"v","e","h","i","c","l","e","-","b","o","d","y","-","t","y","p","e">>>>
  }

\* table[key] ?? dflt, for a table given as a set of <<key, value>> pairs.
lookupOr(table, key, dflt) ==
  IF \E p \in table : p[1] = key
  THEN (CHOOSE p \in table : p[1] = key)[2]
  ELSE dflt

DotJson == <<".","j","s","o","n">>

endsWith(s, p) ==
  Len(s) >= Len(p) /\ SubSeq(s, Len(s) - Len(p) + 1, Len(s)) = p

SKIP_FILES ==
  { <<"c","o","d","e","-","l","i","s","t","-","s","u","m","m","a","r","y",".","j","s","o","n">>,
    <<"a","c","o","r","d","-","c","s","i","o","-","u","n","i","f","i","e","d",".","j","s","o","n">> }

\* file.replace(/\.json$/, "")
stemOf(file) ==
  IF endsWith(file, DotJson) THEN SubSeq(file, 1, Len(file) - Len(DotJson)) ELSE file

topLevelId(file) == lookupOr(TOP_LEVEL_ID_MAP, stemOf(file), stemOf(file))

codeListId(name) == lookupOr(CODE_LIST_TO_TOP_LEVEL, name, toKebabCase(name))

(***************************************************************************)
(* Data.  A nullable value is <<>> (null) or <<v>>.  An insertion-ordered  *)
(* JavaScript Map is a sequence of [key, val] records with distinct keys.  *)
(* A concept without a designation field has designation <<>>.            *)
(***************************************************************************)
Null == <<>>

Some(v) == <<v>>

mapHas(m, k) == \E i \in DOMAIN m : m[i].key = k

mapGet(m, k) == m[CHOOSE i \in DOMAIN m : m[i].key = k].val

\* Map.prototype.set: a key that is present keeps its place.
mapSet(m, k, v) ==
  IF mapHas(m, k)
  THEN [i \in DOMAIN m |-> IF m[i].key = k THEN [key |-> k, val |-> v] ELSE m[i]]
  ELSE Append(m, [key |-> k, val |-> v])

LangFrCA == <<"f","r","-","C","A">>

LangEn == <<"e","n">>

StatusDraft == <<"d","r","a","f","t">>

ResourceTypeCodeSystem == <<"C","o","d","e","S","y","s","t","e","m">>

UrlBase == <<"h","t","t","p","s",":","/","/","b","i","n","d",".","c","o","d","e","s","/">>

DescriptionTail ==
  <<" ","c","o","d","e","s"," ","f","o","r"," ","i","n","s","u","r","a","n","c","e"," ",
    "o","p","e","r","a","t","i","o","n","s",".">>

\* The keys of a record the converter constructs, in the order it writes them.
FreshKeys ==
  <<"resourceType", "id", "url", "name", "title", "status", "language",
    "description", "concept">>

conceptCodes(concepts) == { concepts[i].code : i \in DOMAIN concepts }

\* The record literal returned when there is no existing record.
freshWithTitle(id, title, newConcepts) ==
  [ keys         |-> FreshKeys,
    resourceType |-> ResourceTypeCodeSystem,
    id           |-> id,
    url          |-> UrlBase \o id,
    name         |-> toPascalCase(id),
    title        |-> title,
    status       |-> StatusDraft,
    language     |-> LangEn,
    description  |-> title \o DescriptionTail,
    concept      |-> newConcepts ]

\* A fresh record with the status of a published one.
freshCodeSystemActive(id, newConcepts) ==
  [ freshWithTitle(id, toTitle(id), newConcepts)
      EXCEPT !.status = <<"a","c","t","i","v","e">> ]

freshCodeSystem(id, newConcepts) == freshWithTitle(id, toTitle(id), newConcepts)

\* A variant that keeps the new concepts in place of the existing ones.
mergedCodeSystemReplacing(existingCS, newConcepts) ==
  [ existingCS EXCEPT
      !.keys     = IF \E i \in DOMAIN @ : @[i] = "language" THEN @
                   ELSE Append(@, "language"),
      !.language = IF @ = Absent THEN LangEn ELSE @,
      !.concept  = newConcepts ]

\* { ...existingCS, language: existingCS.language ?? "en",
\*   concept: [...existingCS.concept, ...newConcepts] }
mergedCodeSystem(existingCS, newConcepts) ==
  [ existingCS EXCEPT
      !.keys     = IF \E i \in DOMAIN @ : @[i] = "language" THEN @
                   ELSE Append(@, "language"),
      !.language = IF @ = Absent THEN LangEn ELSE @,
      !.concept  = @ \o newConcepts ]

mergeOrCreate(id, existing, newConcepts) ==
  IF existing # Null
  THEN mergedCodeSystem(existing[1], newConcepts)
  ELSE freshCodeSystem(id, newConcepts)

mappingEntry(bindCode, sourceCode, sourceFile, id) ==
  [ bindCode |-> bindCode, sourceCode |-> sourceCode,
    sourceFile |-> sourceFile, codeSystemId |-> id ]

(***************************************************************************)
(* buildFromCodeList.                                                      *)
(***************************************************************************)
\* A variant that reads the flag and not the display.
codeListDeprecatedByFlag(code) == code.deprecated

\* code.deprecated || code.display.startsWith("DEPRECATED")
codeListDeprecated(code) ==
  code.deprecated \/ startsWith(code.display, MarkerDeprecated)

\* The else-if of the de-duplication loop: the later entry replaces the kept one.
codeListReplaces(existing, code) ==
  /\ existing.deprecated
  /\ ~code.deprecated
  /\ ~startsWith(code.display, MarkerDeprecated)

\* The same condition reads code.display, and throws when it is undefined.
codeListReplacesThrows(existing, code) ==
  existing.deprecated /\ ~code.deprecated /\ code.display = Absent

\* One iteration of the de-duplication loop, bindCode derived: the map after
\* it, or the TypeError.
dedupCodeListStep(seen, bindCode, code) ==
  IF ~mapHas(seen, bindCode)
  THEN [seen |-> mapSet(seen, bindCode, code), threw |-> FALSE]
  ELSE IF codeListReplacesThrows(mapGet(seen, bindCode), code)
       THEN [seen |-> seen, threw |-> TRUE]
       ELSE IF codeListReplaces(mapGet(seen, bindCode), code)
            THEN [seen |-> mapSet(seen, bindCode, code), threw |-> FALSE]
            ELSE [seen |-> seen, threw |-> FALSE]

\* The de-duplication loop: [seen, threw].
RECURSIVE dedupCodeList(_, _)
dedupCodeList(codes, d) ==
  IF codes = <<>> \/ d.threw THEN d
  ELSE dedupCodeList(Tail(codes),
         dedupCodeListStep(d.seen,
           deriveBINDCode(Head(codes).code, Head(codes).display), Head(codes)))

codeListSourceFile(cl) ==
  <<"c","o","d","e","-","l","i","s","t","s","/">> \o toKebabCase(cl.code_list_name)
    \o DotJson

codeListConcept(bindCode, code, title) ==
  [ code        |-> bindCode,
    display     |-> cleanDisplay(code.display),
    definition  |-> generateDefinition(code.display, title),
    designation |->
      IF truthy(code.display_fr) /\ cleanDisplay(code.display_fr) # <<>>
      THEN <<[language |-> LangFrCA, value |-> cleanDisplay(code.display_fr)]>>
      ELSE <<>> ]

\* A variant that does not look for the code in the existing record.
codeListStepIgnoringExisting(bindCode, code, m, title, existingCodes, acc) ==
  IF ~code.deprecated /\ code.display = Absent
  THEN [acc EXCEPT !.threw = TRUE]
  ELSE IF code.deprecated \/ startsWith(code.display, MarkerDeprecated)
  THEN [acc EXCEPT !.pushed = Append(@, m)]
  ELSE IF bindCode \in acc.newBindCodes
  THEN [acc EXCEPT !.pushed = Append(@, m)]
  ELSE [acc EXCEPT
          !.newConcepts  = Append(@, codeListConcept(bindCode, code, title)),
          !.newBindCodes = @ \cup {bindCode},
          !.from         = Append(@, code),
          !.pushed       = Append(@, m)]

\* A variant that records no mapping for a code that already exists.
codeListStepSilentOnExisting(bindCode, code, m, title, existingCodes, acc) ==
  IF ~code.deprecated /\ code.display = Absent
  THEN [acc EXCEPT !.threw = TRUE]
  ELSE IF code.deprecated \/ startsWith(code.display, MarkerDeprecated)
  THEN [acc EXCEPT !.pushed = Append(@, m)]
  ELSE IF bindCode \in existingCodes \/ bindCode \in acc.newBindCodes
  THEN acc
  ELSE [acc EXCEPT
          !.newConcepts  = Append(@, codeListConcept(bindCode, code, title)),
          !.newBindCodes = @ \cup {bindCode},
          !.from         = Append(@, code),
          !.pushed       = Append(@, m)]

\* The loop over the winners.  acc is [newConcepts, newBindCodes, pushed, from,
\* threw]: the concepts built, their codes, the mapping entries pushed, and the
\* upstream entry each concept was built from.
\* One iteration of the loop over the winners; m is the mapping entry the
\* iteration pushes unless it throws.
codeListStep(bindCode, code, m, title, existingCodes, acc) ==
  IF ~code.deprecated /\ code.display = Absent
  THEN [acc EXCEPT !.threw = TRUE]
  ELSE IF codeListDeprecated(code)
  THEN [acc EXCEPT !.pushed = Append(@, m)]
  ELSE IF bindCode \in existingCodes \/ bindCode \in acc.newBindCodes
  THEN [acc EXCEPT !.pushed = Append(@, m)]
  ELSE [acc EXCEPT
          !.newConcepts  = Append(@, codeListConcept(bindCode, code, title)),
          !.newBindCodes = @ \cup {bindCode},
          !.from         = Append(@, code),
          !.pushed       = Append(@, m)]

RECURSIVE codeListConcepts(_, _, _, _, _, _)
codeListConcepts(seen, id, sourceFile, title, existingCodes, acc) ==
  IF seen = <<>> \/ acc.threw THEN acc
  ELSE codeListConcepts(Tail(seen), id, sourceFile, title, existingCodes,
         codeListStep(Head(seen).key, Head(seen).val,
           mappingEntry(Head(seen).key, Head(seen).val.code, sourceFile, id),
           title, existingCodes, acc))

EmptyAcc ==
  [ newConcepts |-> <<>>, newBindCodes |-> {}, pushed |-> <<>>, from |-> <<>>,
    threw |-> FALSE ]

\* The result of a build: the record, the mapping entries pushed, the upstream
\* entries the appended concepts were built from, and whether it threw.
buildResult(id, existing, acc) ==
  [ cs     |-> mergeOrCreate(id, existing, acc.newConcepts),
    pushed |-> acc.pushed,
    from   |-> acc.from,
    threw  |-> acc.threw ]

\* A variant that finds no code in the existing record.
existingCodesOfNone(existing) == {}

existingCodesOf(existing) ==
  IF existing # Null THEN conceptCodes(existing[1].concept) ELSE {}

\* The winners of the de-duplication of a code list.
seenCodeList(cl) == dedupCodeList(cl.codes, [seen |-> <<>>, threw |-> FALSE])

\* topLevelEntries only fills topLevelLookup, which nothing reads.
buildFromCodeList(id, cl, topLevelEntries, existing) ==
  buildResult(id, existing,
    codeListConcepts(seenCodeList(cl).seen, id, codeListSourceFile(cl), toTitle(id),
      existingCodesOf(existing),
      [EmptyAcc EXCEPT !.threw = seenCodeList(cl).threw]))

(***************************************************************************)
(* buildFromTopLevel.                                                      *)
(***************************************************************************)
\* entry.display?.startsWith("DEPRECATED")
topLevelDeprecated(entry) ==
  entry.display # Absent /\ startsWith(entry.display, MarkerDeprecated)

topLevelReplaces(existing, entry) ==
  /\ topLevelDeprecated(existing)
  /\ truthy(entry.display)
  /\ ~startsWith(entry.display, MarkerDeprecated)

\* One iteration of the de-duplication loop, bindCode derived.
dedupTopLevelStep(seen, bindCode, entry) ==
  IF ~mapHas(seen, bindCode) THEN mapSet(seen, bindCode, entry)
  ELSE IF topLevelReplaces(mapGet(seen, bindCode), entry)
       THEN mapSet(seen, bindCode, entry)
       ELSE seen

RECURSIVE dedupTopLevel(_, _)
dedupTopLevel(entries, seen) ==
  IF entries = <<>> THEN seen
  ELSE dedupTopLevel(Tail(entries),
         dedupTopLevelStep(seen,
           deriveBINDCode(Head(entries).code, Head(entries).display), Head(entries)))

topLevelSourceFile(id) == id \o DotJson

topLevelConcept(bindCode, entry, title) ==
  [ code        |-> bindCode,
    display     |-> cleanDisplay(entry.display),
    definition  |-> generateDefinition(entry.display, title),
    designation |-> <<>> ]

\* A variant that records no mapping for a code that already exists.
topLevelStepSilentOnExisting(bindCode, entry, m, title, existingCodes, acc) ==
  IF entry.display # Absent /\ startsWith(entry.display, MarkerDeprecated)
  THEN [acc EXCEPT !.pushed = Append(@, m)]
  ELSE IF ~truthy(entry.display)
  THEN acc
  ELSE IF bindCode \in existingCodes \/ bindCode \in acc.newBindCodes
  THEN acc
  ELSE [acc EXCEPT
          !.newConcepts  = Append(@, topLevelConcept(bindCode, entry, title)),
          !.newBindCodes = @ \cup {bindCode},
          !.from         = Append(@, entry),
          !.pushed       = Append(@, m)]

\* One iteration of the loop over the winners; m is the mapping entry the
\* iteration pushes unless the entry has no display.
topLevelStep(bindCode, entry, m, title, existingCodes, acc) ==
  IF topLevelDeprecated(entry)
  THEN [acc EXCEPT !.pushed = Append(@, m)]
  ELSE IF ~truthy(entry.display)
  THEN acc
  ELSE IF bindCode \in existingCodes \/ bindCode \in acc.newBindCodes
  THEN [acc EXCEPT !.pushed = Append(@, m)]
  ELSE [acc EXCEPT
          !.newConcepts  = Append(@, topLevelConcept(bindCode, entry, title)),
          !.newBindCodes = @ \cup {bindCode},
          !.from         = Append(@, entry),
          !.pushed       = Append(@, m)]

RECURSIVE topLevelConcepts(_, _, _, _, _)
topLevelConcepts(seen, id, title, existingCodes, acc) ==
  IF seen = <<>> THEN acc
  ELSE topLevelConcepts(Tail(seen), id, title, existingCodes,
         topLevelStep(Head(seen).key, Head(seen).val,
           mappingEntry(Head(seen).key, Head(seen).val.code, topLevelSourceFile(id), id),
           title, existingCodes, acc))

\* The winners of the de-duplication of a top-level file.
seenTopLevel(entries) == dedupTopLevel(entries, <<>>)

buildFromTopLevel(id, entries, existing) ==
  buildResult(id, existing,
    topLevelConcepts(seenTopLevel(entries), id, toTitle(id), existingCodesOf(existing),
      EmptyAcc))

(***************************************************************************)
(* enrichWithCodeList.                                                     *)
(***************************************************************************)
\* The last entry of codes with the given raw code: lookup.set overwrites.
RECURSIVE lookupByCode(_, _)
lookupByCode(codes, key) ==
  IF codes = <<>> THEN Null
  ELSE IF codes[Len(codes)].code = key THEN Some(codes[Len(codes)])
       ELSE lookupByCode(SubSeq(codes, 1, Len(codes) - 1), key)

\* The last entry with a display whose cleaned, lower-cased text is the key.
RECURSIVE lookupByDisplay(_, _)
lookupByDisplay(codes, key) ==
  IF codes = <<>> THEN Null
  ELSE LET c == codes[Len(codes)]
       IN  IF truthy(c.display) /\ toLowerCase(cleanDisplay(c.display)) = key
           THEN Some(c)
           ELSE lookupByDisplay(SubSeq(codes, 1, Len(codes) - 1), key)

\* if (clCode?.display_fr) { ... concept.designation = [...] }
withDesignationFrom(concept, clCode) ==
  IF clCode # Null /\ truthy(clCode[1].display_fr)
     /\ cleanDisplay(clCode[1].display_fr) # <<>>
  THEN [concept EXCEPT !.designation =
          <<[language |-> LangFrCA, value |-> cleanDisplay(clCode[1].display_fr)]>>]
  ELSE concept

\* A match that tries the display text first and the code after it.
matchForDisplayFirst(concept, byCode, codes) ==
  IF lookupByDisplay(codes, toLowerCase(concept.display)) # Null
  THEN lookupByDisplay(codes, toLowerCase(concept.display))
  ELSE byCode

\* lookup.get(concept.code), else displayLookup.get(concept.display.toLowerCase())
matchFor(concept, byCode, codes) ==
  IF byCode # Null THEN byCode
  ELSE lookupByDisplay(codes, toLowerCase(concept.display))

\* The enricher without its test for an existing designation.
enrichConceptOverwriting(concept, cl) ==
  withDesignationFrom(concept,
    matchFor(concept, lookupByCode(cl.codes, concept.code), cl.codes))

\* if (concept.designation && concept.designation.length > 0) continue;
enrichConcept(concept, cl) ==
  IF concept.designation # <<>> THEN concept
  ELSE withDesignationFrom(concept,
         matchFor(concept, lookupByCode(cl.codes, concept.code), cl.codes))

enrichWithCodeList(cs, cl) ==
  [cs EXCEPT !.concept = [i \in DOMAIN @ |-> enrichConcept(@[i], cl)]]

(***************************************************************************)
(* Orderings: Array.prototype.sort() on strings (UTF-16 code units) and    *)
(* String.prototype.localeCompare (root collation: punctuation, digits,    *)
(* letters; case decides only between otherwise equal strings, lower case  *)
(* first).                                                                 *)
(***************************************************************************)
CodeUnitOrder ==
  <<"\t", "\n", " ", "!", "&", "'", "-", ".", "/">> \o DigitChars \o <<":", ";">>
    \o UpperChars \o <<"_">> \o LowerChars \o <<"E'", "e'">>

rankIn(order, c) == CHOOSE i \in DOMAIN order : order[i] = c

CodeUnit == [c \in CharSet |-> rankIn(CodeUnitOrder, c)]

\* a < b in code-unit order.
RECURSIVE codeUnitLess(_, _)
codeUnitLess(a, b) ==
  IF b = <<>> THEN FALSE
  ELSE IF a = <<>> THEN TRUE
  ELSE IF Head(a) = Head(b) THEN codeUnitLess(Tail(a), Tail(b))
  ELSE CodeUnit[Head(a)] < CodeUnit[Head(b)]

\* The ids from the greatest to the least in code-unit order.
RECURSIVE sortIdsDescending(_)
sortIdsDescending(S) ==
  IF S = {} THEN <<>>
  ELSE LET m == CHOOSE x \in S : \A y \in S \ {x} : codeUnitLess(y, x)
       IN  <<m>> \o sortIdsDescending(S \ {m})

\* [...set].sort()
RECURSIVE sortIds(_)
sortIds(S) ==
  IF S = {} THEN <<>>
  ELSE LET m == CHOOSE x \in S : \A y \in S \ {x} : codeUnitLess(x, y)
       IN  <<m>> \o sortIds(S \ {m})

CollationOrder ==
  <<"\t", "\n", " ", "_", "-", ";", ":", "!", ".", "'", "/", "&">> \o DigitChars
    \o LowerChars \o <<"e'">>

Primary == [c \in CharSet |-> rankIn(CollationOrder, lowerChar(c))]

\* -1, 0 or 1 on the primary weights.
RECURSIVE primaryCompare(_, _)
primaryCompare(a, b) ==
  IF a = <<>> /\ b = <<>> THEN 0
  ELSE IF a = <<>> THEN -1
  ELSE IF b = <<>> THEN 1
  ELSE IF Primary[Head(a)] = Primary[Head(b)] THEN primaryCompare(Tail(a), Tail(b))
  ELSE IF Primary[Head(a)] < Primary[Head(b)] THEN -1 ELSE 1

\* Between strings with equal primary weights: the first difference of case.
RECURSIVE caseCompare(_, _)
caseCompare(a, b) ==
  IF a = <<>> \/ b = <<>> THEN 0
  ELSE IF Head(a) = Head(b) THEN caseCompare(Tail(a), Tail(b))
  ELSE IF Head(a) = lowerChar(Head(a)) THEN -1 ELSE 1

localeCompare(a, b) ==
  IF primaryCompare(a, b) # 0 THEN primaryCompare(a, b) ELSE caseCompare(a, b)

\* The comparator of the mapping sort.
compareMappings(a, b) ==
  IF localeCompare(a.codeSystemId, b.codeSystemId) # 0
  THEN localeCompare(a.codeSystemId, b.codeSystemId)
  ELSE localeCompare(a.bindCode, b.bindCode)

\* x placed after every element that does not compare greater (a stable sort).
RECURSIVE insertMapping(_, _)
insertMapping(sorted, x) ==
  IF sorted = <<>> THEN <<x>>
  ELSE IF compareMappings(sorted[Len(sorted)], x) <= 0 THEN Append(sorted, x)
       ELSE Append(insertMapping(SubSeq(sorted, 1, Len(sorted) - 1), x),
                   sorted[Len(sorted)])

RECURSIVE sortMappings(_)
sortMappings(ms) ==
  IF ms = <<>> THEN <<>>
  ELSE insertMapping(sortMappings(SubSeq(ms, 1, Len(ms) - 1)), ms[Len(ms)])

(***************************************************************************)
(* The state: the source tree, the output directory, and one run of main.  *)
(***************************************************************************)
VARIABLES
  srcTopLevel,    \* SOURCE_ROOT: the files, in readdir order
  srcCodeLists,   \* SOURCE_CODE_LISTS: the files, in readdir order
  disk,           \* CODESYSTEMS_DIR: id -> the file <id>.json
  mappingFile,    \* MAPPING_FILE: null or the document written
  gitignore,      \* whether .gitignore lists .mapping/
  clock,          \* the wall clock, read by new Date()
  run,            \* the number of the run in progress
  pc,             \* the position of main
  fileIdx,        \* the index of the next source file to read
  topLevelMap,    \* id -> TopLevelEntry[]
  codeListMap,    \* id -> CodeListFile
  todo,           \* the ids still to process, sorted
  existingCS,     \* the existing record of the id in progress, or null
  built,          \* the result of the build of the id in progress, or null
  mappings,       \* the module-level accumulator of mapping entries
  counts,         \* created, merged, skipped
  exitCode,       \* the exit status of the process, null while it runs
  diskAtStart,    \* history: the output directory when the run started
  mappingAtStart, \* history: the mapping file when the run started
  prevCounts,     \* history: the counters of the previous run
  dCode,          \* deriveBINDCode alone: its argument code
  dDisplay,       \* deriveBINDCode alone: its argument display
  dResult,        \* deriveBINDCode alone: null, or the code returned
  eCs,            \* enrichWithCodeList alone: its argument cs
  eCl,            \* enrichWithCodeList alone: its argument cl
  eResult,        \* enrichWithCodeList alone: null, or the record returned
  lCs,            \* the serving layer: the code system loadCodeSystem returns
  lCode,          \* the serving layer: the code of the request
  lLang,          \* the serving layer: the lang of the request, or undefined
  lResult,        \* the serving layer: null, or the response
  manifestCache,  \* the serving layer: the module-level manifest cache
  manifestAsset,  \* the serving layer: the asset _manifest.json
  calls,          \* the serving layer: the calls of loadAllCodeSystems
  manifestFetches,\* history: the number of fetches of the manifest
  dirEntries,     \* the validator: what readdir(CODESYSTEMS_DIR) returns
  jsonFiles,      \* the validator: the files still to check, sorted
  errors,         \* the validator: the module-level error counter
  passed,         \* history: the files reported OK
  validateExit    \* the validator: null, or the exit status

vars ==
  << srcTopLevel, srcCodeLists, disk, mappingFile, gitignore, clock, run, pc,
     fileIdx, topLevelMap, codeListMap, todo, existingCS, built, mappings,
     counts, exitCode, diskAtStart, mappingAtStart, prevCounts,
     dCode, dDisplay, dResult, eCs, eCl, eResult, lCs, lCode, lLang, lResult,
     manifestCache, manifestAsset, calls, manifestFetches,
     dirEntries, jsonFiles, errors, passed, validateExit >>

\* The variables of the functions studied alone, which a run of the converter
\* leaves as they are.
deriveVars == << dCode, dDisplay, dResult >>

enrichVars == << eCs, eCl, eResult >>

localizeVars == << lCs, lCode, lLang, lResult >>

manifestVars == << manifestCache, manifestAsset, calls, manifestFetches >>

validateVars == << dirEntries, jsonFiles, errors, passed, validateExit >>

aloneVars ==
  << deriveVars, enrichVars, localizeVars, manifestVars, validateVars >>

EmptyMap == [x \in {} |-> x]

MappingDescription ==
  "Maps BIND codes to their original source codes. This file is private and excluded from version control."

\* The total number of upstream entries and existing concepts of a scenario.
MaxTotal == 3

\* The number of runs of the converter over the same tree.
MaxRuns == 2

StrWoodFrame == <<"W","o","o","d"," ","F","r","a","m","e">>

StrDeprecatedWoodFrame ==
  <<"D","E","P","R","E","C","A","T","E","D"," ","W","o","o","d"," ","F","r","a","m","e">>

StrOne == <<"1">>

StrCsioA == <<"c","s","i","o",":","A">>

StrBois == <<"B","o","i","s">>

FileConstructionTypes ==
  <<"c","o","n","s","t","r","u","c","t","i","o","n","-","t","y","p","e","s",".","j","s","o","n">>

NameConstructionType ==
  <<"C","o","n","s","t","r","u","c","t","i","o","n","T","y","p","e">>

IdConstructionType ==
  <<"c","o","n","s","t","r","u","c","t","i","o","n","-","t","y","p","e">>

TopLevelEntries ==
  [ code : {StrOne, StrCsioA},
    display : {Absent, StrWoodFrame, StrDeprecatedWoodFrame} ]

\* The numeric code carries a French text and either display; the prefixed
\* code carries neither a French text nor a marker in its display.
CodeListCodes ==
  { [ code |-> StrOne, display |-> d, deprecated |-> dep, display_fr |-> StrBois ] :
      d \in {StrWoodFrame, StrDeprecatedWoodFrame}, dep \in BOOLEAN }
  \cup
  { [ code |-> StrCsioA, display |-> StrWoodFrame, deprecated |-> dep,
      display_fr |-> Absent ] : dep \in BOOLEAN }

\* Hand-curated concepts: their texts are not what the converter would derive.
curated(code, designation) ==
  [ code        |-> code,
    display     |-> <<"T","i","m","b","e","r">>,
    definition  |-> <<"C","u","r","a","t","e","d"," ","e","n","t","r","y",".">>,
    designation |-> designation ]

StrWoodFrameSlug == <<"w","o","o","d","-","f","r","a","m","e">>

CuratedConcepts ==
  { curated(StrWoodFrameSlug, <<>>),
    curated(StrWoodFrameSlug,
      <<[language |-> LangFrCA, value |-> <<"C","h","a","r","p","e","n","t","e">>]>>),
    curated(<<"A">>, <<>>) }

\* A hand-curated record: without a language and not in the converter's
\* layout, or with a language and as the converter would write it.
curatedFile(id, concepts, plain) ==
  [ kind      |-> "json",
    canonical |-> ~plain,
    value     |->
      [ keys         |-> IF plain
                         THEN <<"resourceType", "id", "url", "name", "title",
                                "status", "description", "concept">>
                         ELSE FreshKeys,
        resourceType |-> ResourceTypeCodeSystem,
        id           |-> id,
        url          |-> UrlBase \o id,
        name         |-> toPascalCase(id),
        title        |-> <<"C","u","r","a","t","e","d">>,
        status       |-> <<"a","c","t","i","v","e">>,
        language     |-> IF plain THEN Absent ELSE LangEn,
        description  |-> <<"C","u","r","a","t","e","d",".">>,
        concept      |-> concepts ] ]

seqsOfLen(S, n) == [1..n -> S]

topLevelFile(name, entries) == [name |-> name, kind |-> "array", entries |-> entries]

codeListFile(file, name, codes) ==
  [ name |-> file, kind |-> "list",
    value |-> [code_list_name |-> name, codes |-> codes] ]

\* One vocabulary described by either shape, by both or by neither, over an
\* output directory that may already hold its record.
OneVocabulary ==
  { [ top |-> t, codeLists |-> c, disk |-> d, gitignore |-> FALSE ] :
      <<t, c, d>> \in
        UNION { UNION { UNION {
          ( (IF a = 0 THEN {<<>>} ELSE {})
              \cup { <<topLevelFile(FileConstructionTypes, es)>> :
                       es \in seqsOfLen(TopLevelEntries, a) } )
          \X
          ( (IF b = 0 THEN {<<>>} ELSE {})
              \cup { <<codeListFile(FileConstructionTypes, NameConstructionType, cs)>> :
                       cs \in seqsOfLen(CodeListCodes, b) } )
          \X
          ( IF e = 0 THEN {EmptyMap}
            ELSE { IdConstructionType :> curatedFile(IdConstructionType, xs, TRUE) :
                     xs \in seqsOfLen(CuratedConcepts, e) } )
          : e \in 0..(MaxTotal - a - b) } : b \in 0..(MaxTotal - a) } : a \in 0..MaxTotal } }

(***************************************************************************)
(* A source tree with two vocabularies and the files the readers and the   *)
(* loader must cope with: files that are not JSON, JSON of another shape,  *)
(* the JSON value null, the skipped metadata file, a file of another       *)
(* extension, two files of one id, a code without display, and a record    *)
(* on disk that is not JSON or that no source describes.                   *)
(***************************************************************************)
FileConstructionType ==
  <<"c","o","n","s","t","r","u","c","t","i","o","n","-","t","y","p","e",".","j","s","o","n">>

FileRiskTypes == <<"r","i","s","k","-","t","y","p","e","s",".","j","s","o","n">>

NameRiskType == <<"R","i","s","k","T","y","p","e">>

IdRiskType == <<"r","i","s","k","-","t","y","p","e">>

FileSummary ==
  <<"c","o","d","e","-","l","i","s","t","-","s","u","m","m","a","r","y",".","j","s","o","n">>

FileReadme == <<"R","E","A","D","M","E",".","m","d">>

IdCoverage == <<"c","o","v","e","r","a","g","e">>

\* A file that is not an array of entries: text that does not parse
\* ("invalid") or JSON of another shape ("other").
otherTopLevelFile(name, kind) == [name |-> name, kind |-> kind, entries |-> <<>>]

\* A file that is not a code list: text that does not parse ("invalid"), the
\* JSON value null ("null"), or JSON without code_list_name or codes ("other").
otherCodeListFile(name, kind) ==
  [ name |-> name, kind |-> kind,
    value |-> [code_list_name |-> Absent, codes |-> <<>>] ]

\* A file of the output directory that does not parse.
invalidFile(id) == [curatedFile(id, <<>>, TRUE) EXCEPT !.kind = "invalid"]

entryWoodFrame(code) == [code |-> code, display |-> StrWoodFrame]

codeWoodFrame(display) ==
  [ code |-> StrOne, display |-> display, deprecated |-> FALSE,
    display_fr |-> StrBois ]

ConstructionTops ==
  { <<>>,
    <<topLevelFile(FileConstructionTypes, <<entryWoodFrame(StrOne)>>)>>,
    <<topLevelFile(FileConstructionType, <<entryWoodFrame(StrCsioA)>>),
      topLevelFile(FileConstructionTypes, <<entryWoodFrame(StrOne)>>)>> }

RiskTops ==
  { <<>>,
    <<otherTopLevelFile(FileRiskTypes, "invalid")>>,
    <<otherTopLevelFile(FileRiskTypes, "other")>>,
    <<topLevelFile(FileRiskTypes, <<entryWoodFrame(StrCsioA)>>)>> }

IgnoredTops ==
  { <<>>,
    <<topLevelFile(FileSummary, <<entryWoodFrame(StrOne)>>)>>,
    <<topLevelFile(FileReadme, <<entryWoodFrame(StrOne)>>)>> }

RiskCodeLists ==
  { <<>>,
    <<otherCodeListFile(FileRiskTypes, "invalid")>>,
    <<otherCodeListFile(FileRiskTypes, "null")>>,
    <<otherCodeListFile(FileRiskTypes, "other")>>,
    <<codeListFile(FileRiskTypes, NameRiskType, <<codeWoodFrame(StrWoodFrame)>>)>>,
    <<codeListFile(FileRiskTypes, NameRiskType, <<codeWoodFrame(Absent)>>)>> }

ConstructionDisks == { EmptyMap, IdConstructionType :> invalidFile(IdConstructionType) }

RiskDisks ==
  { EmptyMap,
    IdRiskType :> curatedFile(IdRiskType, <<curated(<<"A">>, <<>>)>>, FALSE) }

UnrelatedDisk ==
  IdCoverage :> curatedFile(IdCoverage, <<curated(<<"A">>, <<>>)>>, FALSE)

TwoVocabularies ==
  { [ top       |-> t[1] \o t[2] \o t[3],
      codeLists |-> c,
      disk      |-> d[1] @@ d[2] @@ UnrelatedDisk,
      gitignore |-> TRUE ] :
      t \in ConstructionTops \X RiskTops \X IgnoredTops,
      c \in RiskCodeLists,
      d \in ConstructionDisks \X RiskDisks }

Scenarios == OneVocabulary \cup TwoVocabularies

NoCounts == [created |-> 0, merged |-> 0, skipped |-> 0]

\* The converter before its first run.
MainIdle ==
  /\ mappingFile = Null
  /\ clock = 0
  /\ run = 1
  /\ fileIdx = 1
  /\ topLevelMap = EmptyMap
  /\ codeListMap = EmptyMap
  /\ todo = <<>>
  /\ existingCS = Null
  /\ built = Null
  /\ mappings = <<>>
  /\ counts = NoCounts
  /\ exitCode = Null
  /\ mappingAtStart = Null
  /\ prevCounts = NoCounts

\* deriveBINDCode is not under study in the runs of the converter.
DeriveIdle ==
  /\ dCode = <<>>
  /\ dDisplay = Absent
  /\ dResult = Null

\* enrichWithCodeList is not under study either.
EnrichIdle ==
  /\ eCs = Null
  /\ eCl = Null
  /\ eResult = Null

\* No request is served.
LocalizeIdle ==
  /\ lCs = Null
  /\ lCode = <<>>
  /\ lLang = Absent
  /\ lResult = Null

ManifestIdle ==
  /\ manifestCache = Null
  /\ manifestAsset = Null
  /\ calls = <<>>
  /\ manifestFetches = 0

ValidateIdle ==
  /\ dirEntries = <<>>
  /\ jsonFiles = <<>>
  /\ errors = 0
  /\ passed = {}
  /\ validateExit = Null

\* No file and no run: the state of the converter while a function is
\* studied alone.
NoRun ==
  /\ srcTopLevel = <<>>
  /\ srcCodeLists = <<>>
  /\ disk = EmptyMap
  /\ gitignore = FALSE
  /\ diskAtStart = EmptyMap
  /\ MainIdle

\* What a function studied alone leaves as it is.
mainVars ==
  << srcTopLevel, srcCodeLists, disk, mappingFile, gitignore, clock, run,
     fileIdx, topLevelMap, codeListMap, todo, existingCS, built, mappings,
     counts, exitCode, diskAtStart, mappingAtStart, prevCounts >>

Init ==
  /\ \E s \in Scenarios :
       /\ srcTopLevel = s.top
       /\ srcCodeLists = s.codeLists
       /\ disk = s.disk
       /\ gitignore = s.gitignore
       /\ diskAtStart = s.disk
  /\ pc = "readTopLevel"
  /\ MainIdle
  /\ DeriveIdle
  /\ EnrichIdle
  /\ LocalizeIdle
  /\ ManifestIdle
  /\ ValidateIdle

(***************************************************************************)
(* main, one step at a time.                                               *)
(***************************************************************************)
isTopLevelSource(f) == endsWith(f.name, DotJson) /\ f.name \notin SKIP_FILES

isCodeListSource(f) == endsWith(f.name, DotJson)

topLevelFiles == SelectSeq(srcTopLevel, isTopLevelSource)

codeListFiles == SelectSeq(srcCodeLists, isCodeListSource)

\* A process that ends on an unhandled error with the status of success.
FatalWithStatusZero ==
  /\ pc' = "failed"
  /\ exitCode' = Some(0)

\* The process dies of an unhandled error: main().catch exits with status 1.
Fatal ==
  /\ pc' = "failed"
  /\ exitCode' = Some(1)

\* A reader that sets the id of every file, whatever its content.
topLevelReadAny(result, file) == (topLevelId(file.name) :> file.entries) @@ result

\* try { data = JSON.parse(raw) } catch { continue }
\* if (!Array.isArray(data)) continue;  result.set(id, data);
topLevelRead(result, file) ==
  IF file.kind = "array"
  THEN (topLevelId(file.name) :> file.entries) @@ result
  ELSE result

\* readTopLevelFiles: one iteration of its loop, with its return after the
\* last file (or at once, when there is no file).
ReadTopLevelFile ==
  /\ pc = "readTopLevel"
  /\ IF fileIdx <= Len(topLevelFiles)
     THEN topLevelMap' = topLevelRead(topLevelMap, topLevelFiles[fileIdx])
     ELSE topLevelMap' = topLevelMap
  /\ IF fileIdx < Len(topLevelFiles)
     THEN fileIdx' = fileIdx + 1 /\ pc' = pc
     ELSE fileIdx' = 1 /\ pc' = "readCodeLists"
  /\ UNCHANGED << srcTopLevel, srcCodeLists, disk, mappingFile, gitignore, clock,
                  run, codeListMap, todo, existingCS, built, mappings, counts,
                  exitCode, diskAtStart, mappingAtStart,
                  prevCounts, aloneVars >>

\* readCodeListFiles: one iteration of its loop, with its return after the
\* last file (or at once, when there is no file).  A file that holds the JSON
\* value null makes the read of cl.code_list_name throw.
ReadCodeListFile ==
  /\ pc = "readCodeLists"
  /\ IF fileIdx <= Len(codeListFiles) /\ codeListFiles[fileIdx].kind = "null"
     THEN /\ Fatal
          /\ UNCHANGED << codeListMap, fileIdx >>
     ELSE /\ IF fileIdx <= Len(codeListFiles)
             THEN LET file == codeListFiles[fileIdx]
                  IN  codeListMap' =
                        IF /\ file.kind = "list"
                           /\ truthy(file.value.code_list_name)
                        THEN (codeListId(file.value.code_list_name) :> file.value)
                               @@ codeListMap
                        ELSE codeListMap
             ELSE codeListMap' = codeListMap
          /\ IF fileIdx < Len(codeListFiles)
             THEN fileIdx' = fileIdx + 1 /\ pc' = pc
             ELSE fileIdx' = 1 /\ pc' = "collect"
          /\ exitCode' = exitCode
  /\ UNCHANGED << srcTopLevel, srcCodeLists, disk, mappingFile, gitignore, clock,
                  run, topLevelMap, todo, existingCS, built, mappings, counts,
                  diskAtStart, mappingAtStart,
                  prevCounts, aloneVars >>

\* const allIds ...; for (const id of [...allIds].sort())
CollectIds ==
  /\ pc = "collect"
  /\ todo' = sortIds(DOMAIN topLevelMap \cup DOMAIN codeListMap)
  /\ pc' = IF todo' = <<>> THEN "writeMapping" ELSE "load"
  /\ UNCHANGED << srcTopLevel, srcCodeLists, disk, mappingFile, gitignore, clock,
                  run, fileIdx, topLevelMap, codeListMap, existingCS, built,
                  mappings, counts, exitCode, diskAtStart, mappingAtStart,
                  prevCounts, aloneVars >>

\* loadExistingCodeSystem(id): JSON.parse throws on a file that is not JSON.
LoadExisting ==
  /\ pc = "load"
  /\ LET id == Head(todo)
     IN  IF id \notin DOMAIN disk
         THEN /\ existingCS' = Null
              /\ pc' = "build"
              /\ exitCode' = exitCode
         ELSE IF disk[id].kind = "json"
         THEN /\ existingCS' = Some(disk[id].value)
              /\ pc' = "build"
              /\ exitCode' = exitCode
         ELSE /\ Fatal
              /\ existingCS' = existingCS
  /\ UNCHANGED << srcTopLevel, srcCodeLists, disk, mappingFile, gitignore, clock,
                  run, fileIdx, topLevelMap, codeListMap, todo, built, mappings,
                  counts, diskAtStart, mappingAtStart,
                  prevCounts, aloneVars >>

tagged(shape, entries) == [i \in DOMAIN entries |-> [shape |-> shape, entry |-> entries[i]]]

\* The body of the loop of main up to the record cs: the build from the code
\* list, then from the top-level entries against it; or from the top-level
\* entries alone, then the search of codeListMap for the same id.
\* The two results of an id that both shapes describe, as one.
bothResults(r1, r2) ==
  [ cs       |-> r2.cs,
    pushed   |-> r1.pushed \o r2.pushed,
    from     |-> tagged("codeList", r1.from) \o tagged("topLevel", r2.from),
    threw    |-> FALSE,
    enriched |-> FALSE ]

\* The result of one build, with the shape its concepts come from and
\* whether enrichWithCodeList was called on its record.
ofShape(r, shape, cs, enriched) ==
  [ cs       |-> cs,
    pushed   |-> r.pushed,
    from     |-> tagged(shape, r.from),
    threw    |-> r.threw,
    enriched |-> enriched ]

\* A second build against the record found on disk, not the first build's.
thenTopLevelFromExisting(id, r1) ==
  IF r1.threw \/ id \notin DOMAIN topLevelMap
  THEN ofShape(r1, "codeList", r1.cs, FALSE)
  ELSE bothResults(r1, buildFromTopLevel(id, topLevelMap[id], existingCS))

\* if (topLevel) { cs = buildFromTopLevel(id, topLevel, cs); }
thenTopLevel(id, r1) ==
  IF r1.threw \/ id \notin DOMAIN topLevelMap
  THEN ofShape(r1, "codeList", r1.cs, FALSE)
  ELSE bothResults(r1, buildFromTopLevel(id, topLevelMap[id], Some(r1.cs)))

\* for (const [clId, cl] of codeListMap) if (clId === id) { enrich; break; }
thenEnrich(id, r) ==
  IF \E clId \in DOMAIN codeListMap : clId = id
  THEN ofShape(r, "topLevel", enrichWithCodeList(r.cs, codeListMap[id]), TRUE)
  ELSE ofShape(r, "topLevel", r.cs, FALSE)

buildCodeSystem(id, existing) ==
  IF id \in DOMAIN codeListMap
  THEN thenTopLevel(id,
         buildFromCodeList(id, codeListMap[id],
           IF id \in DOMAIN topLevelMap THEN topLevelMap[id] ELSE Absent, existing))
  ELSE thenEnrich(id, buildFromTopLevel(id, topLevelMap[id], existing))

\* The state after the build with result r.
Built(r) ==
  IF r.threw
  THEN /\ Fatal
       /\ UNCHANGED << built, mappings >>
  ELSE /\ built' = Some(r)
       /\ mappings' = mappings \o r.pushed
       /\ pc' = "emit"
       /\ exitCode' = exitCode

Build ==
  /\ pc = "build"
  /\ Built(buildCodeSystem(Head(todo), existingCS))
  /\ UNCHANGED << srcTopLevel, srcCodeLists, disk, mappingFile, gitignore, clock,
                  run, fileIdx, topLevelMap, codeListMap, todo, existingCS,
                  counts, diskAtStart, mappingAtStart,
                  prevCounts, aloneVars >>

\* JSON.stringify(cs, null, 2) + "\n", written to <id>.json.
writtenFile(cs) == [kind |-> "json", canonical |-> TRUE, value |-> cs]

\* A loop that ends after the id in progress.
nextIdEnding == "writeMapping"

\* continue, or the end of the body: the next id, or the end of the loop.
nextId == IF Tail(todo) = <<>> THEN "writeMapping" ELSE "load"

\* An id without concepts counted as skipped, its empty record written.
SkipWriting ==
  /\ pc = "emit"
  /\ Len(built[1].cs.concept) = 0
  /\ disk' = (Head(todo) :> writtenFile(built[1].cs)) @@ disk
  /\ counts' = [counts EXCEPT !.skipped = @ + 1]
  /\ todo' = Tail(todo)
  /\ pc' = nextId
  /\ built' = Null
  /\ UNCHANGED << srcTopLevel, srcCodeLists, mappingFile, gitignore, clock,
                  run, fileIdx, topLevelMap, codeListMap, existingCS, mappings,
                  exitCode, diskAtStart, mappingAtStart,
                  prevCounts, aloneVars >>

\* if (cs.concept.length === 0) { skipped++; continue; }
Skip ==
  /\ pc = "emit"
  /\ Len(built[1].cs.concept) = 0
  /\ counts' = [counts EXCEPT !.skipped = @ + 1]
  /\ todo' = Tail(todo)
  /\ pc' = nextId
  /\ built' = Null
  /\ UNCHANGED << srcTopLevel, srcCodeLists, disk, mappingFile, gitignore, clock,
                  run, fileIdx, topLevelMap, codeListMap, existingCS, mappings,
                  exitCode, diskAtStart, mappingAtStart,
                  prevCounts, aloneVars >>

\* await writeFile(outPath, ...), then merged++ or created++.
Write ==
  /\ pc = "emit"
  /\ Len(built[1].cs.concept) # 0
  /\ disk' = (Head(todo) :> writtenFile(built[1].cs)) @@ disk
  /\ counts' = IF existingCS # Null
               THEN [counts EXCEPT !.merged = @ + 1]
               ELSE [counts EXCEPT !.created = @ + 1]
  /\ todo' = Tail(todo)
  /\ pc' = nextId
  /\ built' = Null
  /\ UNCHANGED << srcTopLevel, srcCodeLists, mappingFile, gitignore, clock, run,
                  fileIdx, topLevelMap, codeListMap, existingCS, mappings,
                  exitCode, diskAtStart, mappingAtStart,
                  prevCounts, aloneVars >>

\* A document with the mapping entries in the order of their accumulation.
mappingDocumentUnsorted(ms, time) ==
  [ generatedAt   |-> time,
    description   |-> MappingDescription,
    totalMappings |-> Len(ms),
    mappings      |-> ms ]

\* The document written to MAPPING_FILE.
mappingDocument(ms, time) ==
  [ generatedAt   |-> time,
    description   |-> MappingDescription,
    totalMappings |-> Len(sortMappings(ms)),
    mappings      |-> sortMappings(ms) ]

\* The mapping file is written, .gitignore is completed, and main returns.
WriteMapping ==
  /\ pc = "writeMapping"
  /\ mappingFile' = Some(mappingDocument(mappings, clock))
  /\ mappings' = sortMappings(mappings)
  /\ gitignore' = TRUE
  /\ pc' = "done"
  /\ exitCode' = Some(0)
  /\ UNCHANGED << srcTopLevel, srcCodeLists, disk, clock, run, fileIdx,
                  topLevelMap, codeListMap, todo, existingCS, built, counts,
                  diskAtStart, mappingAtStart,
                  prevCounts, aloneVars >>

\* The converter is started again, later, over the same source tree and the
\* output directory the previous run left: a new process, with its module
\* state initialised again.
RunAgain ==
  /\ pc \in {"done", "failed"}
  /\ run < MaxRuns
  /\ run' = run + 1
  /\ clock' = clock + 1
  /\ pc' = "readTopLevel"
  /\ fileIdx' = 1
  /\ topLevelMap' = EmptyMap
  /\ codeListMap' = EmptyMap
  /\ todo' = <<>>
  /\ existingCS' = Null
  /\ built' = Null
  /\ mappings' = <<>>
  /\ counts' = NoCounts
  /\ exitCode' = Null
  /\ diskAtStart' = disk
  /\ mappingAtStart' = mappingFile
  /\ prevCounts' = counts
  /\ UNCHANGED << srcTopLevel, srcCodeLists, disk, mappingFile, gitignore,
                  aloneVars >>

Next ==
  \/ ReadTopLevelFile
  \/ ReadCodeListFile
  \/ CollectIds
  \/ LoadExisting
  \/ Build
  \/ Skip
  \/ Write
  \/ WriteMapping
  \/ RunAgain

Spec == Init /\ [][Next]_vars

(***************************************************************************)
(* The same converter over source trees of three vocabularies, whose ids   *)
(* are processed in the order construction-type, coverage, risk-type.  A   *)
(* file that does not parse comes before the others of its directory; the  *)
(* first id may have nothing but a deprecated entry; the record of the     *)
(* second may be unreadable when those of the first and of the third are   *)
(* not.                                                                    *)
(***************************************************************************)
FileCoverages == <<"c","o","v","e","r","a","g","e","s",".","j","s","o","n">>

FileBroken == <<"b","r","o","k","e","n",".","j","s","o","n">>

TreeConstructionTops ==
  { <<>>,
    <<otherTopLevelFile(FileBroken, "invalid")>>,
    <<otherTopLevelFile(FileBroken, "invalid"),
      topLevelFile(FileConstructionTypes,
        <<[code |-> StrOne, display |-> StrDeprecatedWoodFrame]>>)>>,
    <<topLevelFile(FileConstructionTypes, <<entryWoodFrame(StrOne)>>)>> }

TreeCoverageTops ==
  { <<>>, <<topLevelFile(FileCoverages, <<entryWoodFrame(StrOne)>>)>> }

TreeRiskTops ==
  { <<otherTopLevelFile(FileRiskTypes, "invalid")>>,
    <<topLevelFile(FileRiskTypes, <<entryWoodFrame(StrCsioA), entryWoodFrame(<<"A">>)>>)>> }

\* The first file of the code lists: none, text that does not parse, the
\* JSON value null, or JSON of another shape.
TreeFirstCodeLists ==
  { <<>>,
    <<otherCodeListFile(FileBroken, "invalid")>>,
    <<otherCodeListFile(FileBroken, "null")>>,
    <<otherCodeListFile(FileBroken, "other")>> }

\* The code list of the third id: none, one entry, or one entry without
\* display, on which the build throws.
TreeRiskCodeLists ==
  { <<>>,
    <<codeListFile(FileRiskTypes, NameRiskType, <<codeWoodFrame(StrWoodFrame)>>)>>,
    <<codeListFile(FileRiskTypes, NameRiskType, <<codeWoodFrame(Absent)>>)>> }

\* The record of the first id: none, one without concepts, one with one, and
\* one with one whose url is that of another host.
TreeConstructionDisks ==
  { EmptyMap,
    IdConstructionType :> curatedFile(IdConstructionType, <<>>, FALSE),
    IdConstructionType :>
      curatedFile(IdConstructionType, <<curated(<<"A">>, <<>>)>>, FALSE),
    IdConstructionType :>
      [ curatedFile(IdConstructionType, <<curated(<<"A">>, <<>>)>>, FALSE)
          EXCEPT !.value.url = <<"h","t","t","p","s",":","/","/","e","x","a","m","p","l","e",".","o","r","g","/">>
                                 \o IdConstructionType ] }

TreeCoverageDisks == { EmptyMap, IdCoverage :> invalidFile(IdCoverage) }

SourceTrees ==
  { [ top       |-> t[1] \o t[2] \o t[3],
      codeLists |-> c[1] \o c[2],
      disk      |-> d[1] @@ d[2] @@ d[3],
      gitignore |-> TRUE ] :
      t \in TreeConstructionTops \X TreeCoverageTops \X TreeRiskTops,
      c \in TreeFirstCodeLists \X TreeRiskCodeLists,
      d \in TreeConstructionDisks \X TreeCoverageDisks \X RiskDisks }

TreeInit ==
  /\ \E s \in SourceTrees :
       /\ srcTopLevel = s.top
       /\ srcCodeLists = s.codeLists
       /\ disk = s.disk
       /\ gitignore = s.gitignore
       /\ diskAtStart = s.disk
  /\ pc = "readTopLevel"
  /\ MainIdle
  /\ DeriveIdle
  /\ EnrichIdle
  /\ LocalizeIdle
  /\ ManifestIdle
  /\ ValidateIdle

SpecTree == TreeInit /\ [][Next]_vars

(***************************************************************************)
(* deriveBINDCode alone: it is applied once to a code and a display drawn  *)
(* from the fragments the upstream codes and displays are made of.         *)
(***************************************************************************)
\* The number of prefixes in front of a code.
MaxPrefixes == 2

\* The number of fragments of a display.
MaxDisplayParts == 3

StrAuto == <<"A","U","T","O">>

StrNumeric == <<"0","4","7">>

StrZero == <<"0">>

StrAutomobile == <<"A","u","t","o","m","o","b","i","l","e">>

StrFireAndTheft == <<"F","i","r","e"," ","&"," ","T","h","e","f","t">>

RECURSIVE concat(_)
concat(parts) == IF parts = <<>> THEN <<>> ELSE Head(parts) \o concat(Tail(parts))

seqsUpTo(S, n) == UNION { seqsOfLen(S, k) : k \in 0..n }

\* What follows the prefixes: nothing, a word, digits, and digits followed by
\* a prefix that is not in front.
CodeBodies == { <<>>, StrAuto, StrNumeric, StrZero, StrZero \o PrefixAcord }

DeriveCodes ==
  { concat(ps) \o b : ps \in seqsUpTo({PrefixCsio, PrefixAcord}, MaxPrefixes),
                      b \in CodeBodies }

DisplayParts ==
  { StrAutomobile, <<"F","i","r","e">>, <<" ","&"," ">>, <<"T","h","e","f","t">>,
    MarkerDeprecated \o <<" ">>, MarkerDesuet \o <<" ">> }

DeriveDisplays ==
  {Absent} \cup { concat(ps) : ps \in seqsUpTo(DisplayParts, MaxDisplayParts) }

DeriveInit ==
  /\ dCode \in DeriveCodes
  /\ dDisplay \in DeriveDisplays
  /\ dResult = Null
  /\ pc = "derive"
  /\ NoRun
  /\ EnrichIdle
  /\ LocalizeIdle
  /\ ManifestIdle
  /\ ValidateIdle

\* const bindCode = deriveBINDCode(code, display);
Derive ==
  /\ pc = "derive"
  /\ dResult' = Some(deriveBINDCode(dCode, dDisplay))
  /\ pc' = "derived"
  /\ UNCHANGED << mainVars, dCode, dDisplay, enrichVars, localizeVars,
                  manifestVars, validateVars >>

DeriveNext == Derive

SpecDerive == DeriveInit /\ [][DeriveNext]_vars

(***************************************************************************)
(* enrichWithCodeList alone: it is applied once to a record of two         *)
(* concepts, with or without designation, and a code list whose entries    *)
(* match them by code, by display, by both or not at all.                  *)
(***************************************************************************)
\* The number of entries of the code list.
MaxEnrichCodes == 2

StrTimber == <<"T","i","m","b","e","r">>

StrCharpente == <<"C","h","a","r","p","e","n","t","e">>

EnrichConcepts ==
  [ code        : {<<"A">>, StrWoodFrameSlug},
    display     : {StrWoodFrame, StrTimber},
    definition  : {<<"C","u","r","a","t","e","d"," ","e","n","t","r","y",".">>},
    designation : {<<>>, <<[language |-> LangFrCA, value |-> StrCharpente]>>} ]

\* Entries whose code or cleaned display is that of a concept, with a French
\* text, without one, or with one that is only a marker.
EnrichCodes ==
  [ code       : {<<"A">>, StrOne},
    display    : {StrWoodFrame, MarkerDeprecated \o <<" ">> \o StrTimber},
    deprecated : {FALSE},
    display_fr : {Absent, StrBois, MarkerDesuet} ]

EnrichInit ==
  /\ \E cs \in seqsOfLen(EnrichConcepts, 2) :
       eCs = Some(freshCodeSystem(IdConstructionType, cs))
  /\ \E codes \in seqsUpTo(EnrichCodes, MaxEnrichCodes) :
       eCl = Some([code_list_name |-> NameConstructionType, codes |-> codes])
  /\ eResult = Null
  /\ pc = "enrich"
  /\ NoRun
  /\ DeriveIdle
  /\ LocalizeIdle
  /\ ManifestIdle
  /\ ValidateIdle

\* cs = enrichWithCodeList(cs, cl);
Enrich ==
  /\ pc = "enrich"
  /\ eResult' = Some(enrichWithCodeList(eCs[1], eCl[1]))
  /\ pc' = "enriched"
  /\ UNCHANGED << mainVars, deriveVars, eCs, eCl, localizeVars,
                  manifestVars, validateVars >>

EnrichNext == Enrich

SpecEnrich == EnrichInit /\ [][EnrichNext]_vars

(***************************************************************************)
(* The serving layer: one request for a code system or for one of its      *)
(* concepts, over HTTP or through a tool of the MCP server, with or        *)
(* without a lang.  The designation of a concept is null when the concept  *)
(* has no such field.                                                      *)
(***************************************************************************)
\* c.designation?.find((d) => d.language === lang): the first one, or null.
RECURSIVE find(_, _)
find(designation, lang) ==
  IF designation = <<>> THEN Null
  ELSE IF Head(designation).language = lang THEN Some(Head(designation))
       ELSE find(Tail(designation), lang)

\* c.designation?.find(...) on a concept.
designationFor(c, lang) ==
  IF c.designation = Null THEN Null ELSE find(c.designation[1], lang)

\* [{ language: defaultLang, value: c.display }, ...(c.designation ?? [])]
withDefault(c, defaultLang) ==
  Some(<<[language |-> defaultLang, value |-> c.display]>>
         \o (IF c.designation = Null THEN <<>> ELSE c.designation[1]))

\* A localisation that leaves the designations as they are.
localizedAsDisplayOnly(c, d, defaultLang) == [c EXCEPT !.display = d.value]

\* return { ...c, display: d.value, designation };
localizedAs(c, d, defaultLang) ==
  [ c EXCEPT
      !.display     = d.value,
      !.designation = IF designationFor(c, defaultLang) # Null
                      THEN @
                      ELSE withDefault(c, defaultLang) ]

\* The callback of concepts.map in localizeConcepts.
localizeConcept(c, lang, defaultLang) ==
  IF designationFor(c, lang) = Null THEN c
  ELSE localizedAs(c, designationFor(c, lang)[1], defaultLang)

localizeConcepts(concepts, lang, defaultLang) ==
  IF ~truthy(lang) THEN concepts
  ELSE [i \in DOMAIN concepts |-> localizeConcept(concepts[i], lang, defaultLang)]

\* cs.concept.find((c) => c.code === code): the first one, or null.
RECURSIVE findConcept(_, _)
findConcept(concepts, code) ==
  IF concepts = <<>> THEN Null
  ELSE IF Head(concepts).code = code THEN Some(Head(concepts))
       ELSE findConcept(Tail(concepts), code)

ok(op, body) == [op |-> op, status |-> 200, body |-> body]

notFound(op) == [op |-> op, status |-> 404, body |-> <<>>]

\* { system, code, display, definition, designation }
lookupResult(cs, concept) ==
  [ system      |-> cs.url,
    code        |-> concept.code,
    display     |-> concept.display,
    definition  |-> concept.definition,
    designation |-> concept.designation ]

\* GET /:id
getRoute(cs, lang) ==
  IF truthy(lang)
  THEN ok("get", [cs EXCEPT !.concept = localizeConcepts(@, lang, LangEn)])
  ELSE ok("get", cs)

\* GET /:id/lookup
lookupRoute(cs, found, lang) ==
  IF found = Null THEN notFound("lookup")
  ELSE ok("lookup", lookupResult(cs, localizeConcepts(<<found[1]>>, lang, LangEn)[1]))

\* The callback of cs.concept.map in the tool get-code-system.
toolLocalizeConcept(c, lang) ==
  IF designationFor(c, lang) = Null THEN c
  ELSE [ c EXCEPT
           !.display     = designationFor(c, lang)[1].value,
           !.designation = IF designationFor(c, LangEn) # Null
                           THEN @
                           ELSE withDefault(c, LangEn) ]

\* The tool get-code-system.
getCodeSystemTool(cs, lang) ==
  IF truthy(lang)
  THEN ok("get-code-system",
          [cs EXCEPT !.concept = [i \in DOMAIN @ |-> toolLocalizeConcept(@[i], lang)]])
  ELSE ok("get-code-system", cs)

\* const d = lang ? concept.designation?.find(...) : undefined;
toolDesignationFor(concept, lang) ==
  IF truthy(lang) THEN designationFor(concept, lang) ELSE Null

\* The result of the tool lookup-code for a concept and the designation d.
toolLookupResult(cs, concept, d) ==
  [ system      |-> cs.url,
    code        |-> concept.code,
    display     |-> IF d # Null THEN d[1].value ELSE concept.display,
    definition  |-> concept.definition,
    designation |-> IF d # Null /\ designationFor(concept, LangEn) = Null
                    THEN withDefault(concept, LangEn)
                    ELSE concept.designation ]

\* The tool lookup-code.
lookupCodeTool(cs, found, lang) ==
  IF found = Null THEN notFound("lookup-code")
  ELSE ok("lookup-code",
          toolLookupResult(cs, found[1], toolDesignationFor(found[1], lang)))

\* The number of designations of a concept.
MaxDesignations == 2

LangEs == <<"e","s">>

Designations ==
  [ language : {LangEn, LangFrCA}, value : {StrBois, StrTimber} ]

ServedLangs == {Absent, <<>>, LangEn, LangFrCA, LangEs}

ServedCodes == {StrWoodFrameSlug, <<"A">>, <<"z">>}

servedConcept(code, designation) ==
  [ code        |-> code,
    display     |-> StrWoodFrame,
    definition  |-> <<"C","u","r","a","t","e","d"," ","e","n","t","r","y",".">>,
    designation |-> designation ]

\* A record of two concepts: the first with no designation field or with up
\* to MaxDesignations designations, the second with none, an empty list or
\* a French one.
ServedCodeSystems ==
  { [curatedFile(IdConstructionType, <<servedConcept(StrWoodFrameSlug, d1), servedConcept(<<"A">>, d2)>>,
                 FALSE).value EXCEPT !.keys = FreshKeys] :
      d1 \in {Null} \cup { Some(ds) : ds \in seqsUpTo(Designations, MaxDesignations) },
      d2 \in { Null, Some(<<>>), Some(<<[language |-> LangFrCA, value |-> StrBois]>>) } }

LocalizeInit ==
  /\ \E cs \in ServedCodeSystems : lCs = Some(cs)
  /\ lCode \in ServedCodes
  /\ lLang \in ServedLangs
  /\ lResult = Null
  /\ pc = "request"
  /\ NoRun
  /\ DeriveIdle
  /\ EnrichIdle
  /\ ManifestIdle
  /\ ValidateIdle

\* The response is sent: return c.json(...), or the tool's return.
Respond ==
  /\ pc' = "served"
  /\ UNCHANGED << mainVars, deriveVars, enrichVars, lCs, lCode, lLang,
                  manifestVars, validateVars >>

GetCodeSystem ==
  /\ pc = "request"
  /\ lResult' = Some(getRoute(lCs[1], lLang))
  /\ Respond

LookupCode ==
  /\ pc = "request"
  /\ lResult' = Some(lookupRoute(lCs[1], findConcept(lCs[1].concept, lCode), lLang))
  /\ Respond

ToolGetCodeSystem ==
  /\ pc = "request"
  /\ lResult' = Some(getCodeSystemTool(lCs[1], lLang))
  /\ Respond

ToolLookupCode ==
  /\ pc = "request"
  /\ lResult' = Some(lookupCodeTool(lCs[1], findConcept(lCs[1].concept, lCode), lLang))
  /\ Respond

LocalizeNext ==
  \/ GetCodeSystem
  \/ LookupCode
  \/ ToolGetCodeSystem
  \/ ToolLookupCode

SpecLocalize == LocalizeInit /\ [][LocalizeNext]_vars

(***************************************************************************)
(* The manifest cache of the serving layer.  A call of loadAllCodeSystems  *)
(* runs up to its first await in one step, and each continuation runs in   *)
(* one step when the promise it awaits settles, so the calls of one        *)
(* process interleave at their awaits.  The asset _manifest.json is the    *)
(* one of the deployment: a list of file names, or a text that is not      *)
(* JSON; a fetch may throw or answer with a status that is not OK.         *)
(***************************************************************************)
\* The number of calls of loadAllCodeSystems in the process.
MaxCalls == 3

\* The number of file names in the manifest.
MaxManifest == 2

ManifestNames ==
  <<"construction-type.json", "coverage.json", "risk-type.json",
    "vehicle-type.json">>

ManifestAssets ==
  { [kind |-> "json", value |-> SubSeq(ManifestNames, 1, n)] :
      n \in 0..MaxManifest }
    \cup { [kind |-> "invalid", value |-> <<>>] }

\* A call that has not begun.
newCall ==
  [ at |-> "idle", manifest |-> <<>>, result |-> Null, fetched |-> FALSE,
    outcome |-> "none", cacheAtStart |-> Null ]

\* if (manifestCache) with an array that has elements: the cache of an empty
\* manifest counts as unset.
cacheSetNonEmpty(cache) == cache # Null /\ cache[1] # <<>>

\* if (manifestCache): null is falsy, an array is truthy, an empty one too.
cacheSet(cache) == cache # Null

\* The elements of a sequence at the indices of a set, in order.
RECURSIVE selectAt(_, _, _)
selectAt(seq, keep, i) ==
  IF i > Len(seq) THEN <<>>
  ELSE (IF i \in keep THEN <<seq[i]>> ELSE <<>>) \o selectAt(seq, keep, i + 1)

ManifestInit ==
  /\ manifestCache = Null
  /\ manifestAsset \in { Some(a) : a \in ManifestAssets }
  /\ calls = [c \in 1..MaxCalls |-> newCall]
  /\ manifestFetches = 0
  /\ pc = "serving"
  /\ NoRun
  /\ DeriveIdle
  /\ EnrichIdle
  /\ LocalizeIdle
  /\ ValidateIdle

servingFrame ==
  UNCHANGED << pc, mainVars, deriveVars, enrichVars, localizeVars,
               manifestAsset, validateVars >>

\* loadAllCodeSystems(assets) up to the first await of loadManifest: the
\* cache is returned, or the fetch of the manifest is begun.
Call(c) ==
  /\ calls[c].at = "idle"
  /\ IF cacheSet(manifestCache)
     THEN /\ calls' = [calls EXCEPT ![c] =
                         [@ EXCEPT !.at = "files",
                                   !.manifest = manifestCache[1],
                                   !.outcome = "cached",
                                   !.cacheAtStart = manifestCache]]
          /\ manifestFetches' = manifestFetches
     ELSE /\ calls' = [calls EXCEPT ![c] =
                         [@ EXCEPT !.at = "fetching", !.fetched = TRUE]]
          /\ manifestFetches' = manifestFetches + 1
  /\ manifestCache' = manifestCache
  /\ servingFrame

\* What a failed fetch leaves of the call: return [].
failedWith(c, how) ==
  /\ calls' = [calls EXCEPT ![c] =
                 [@ EXCEPT !.at = "files", !.manifest = <<>>, !.outcome = how]]
  /\ UNCHANGED << manifestCache, manifestFetches >>
  /\ servingFrame

\* assets.fetch rejects: catch { return []; }
FetchThrows(c) ==
  /\ calls[c].at = "fetching"
  /\ failedWith(c, "threw")

\* if (!response.ok) return [];
FetchNotOk(c) ==
  /\ calls[c].at = "fetching"
  /\ failedWith(c, "notOk")

\* The response is OK: await response.json().
FetchOk(c) ==
  /\ calls[c].at = "fetching"
  /\ calls' = [calls EXCEPT ![c] = [@ EXCEPT !.at = "parsing"]]
  /\ UNCHANGED << manifestCache, manifestFetches >>
  /\ servingFrame

\* response.json() rejects on a text that is not JSON: catch { return []; }
JsonThrows(c) ==
  /\ calls[c].at = "parsing"
  /\ manifestAsset[1].kind # "json"
  /\ failedWith(c, "notJson")

\* manifestCache = (await response.json()) as string[]; return manifestCache;
JsonReturns(c) ==
  /\ calls[c].at = "parsing"
  /\ manifestAsset[1].kind = "json"
  /\ manifestCache' = Some(manifestAsset[1].value)
  /\ calls' = [calls EXCEPT ![c] =
                 [@ EXCEPT !.at = "files",
                           !.manifest = manifestAsset[1].value,
                           !.outcome = "parsed"]]
  /\ manifestFetches' = manifestFetches
  /\ servingFrame

\* await Promise.all(manifest.map(...)), then the filter: the records of the
\* files whose fetch and parse succeeded, in the order of the manifest.
LoadFiles(c) ==
  /\ calls[c].at = "files"
  /\ \E keep \in SUBSET DOMAIN calls[c].manifest :
       calls' = [calls EXCEPT ![c] =
                   [@ EXCEPT !.at = "returned",
                             !.result = Some(selectAt(calls[c].manifest, keep, 1))]]
  /\ UNCHANGED << manifestCache, manifestFetches >>
  /\ servingFrame

ManifestNext ==
  \E c \in 1..MaxCalls :
    \/ Call(c)
    \/ FetchThrows(c)
    \/ FetchNotOk(c)
    \/ FetchOk(c)
    \/ JsonThrows(c)
    \/ JsonReturns(c)
    \/ LoadFiles(c)

SpecManifest == ManifestInit /\ [][ManifestNext]_vars

(***************************************************************************)
(* The schema validator, scripts/validate.ts.  The field concept of a      *)
(* parsed file is a tagged value: an array of concepts, a value that is    *)
(* not an array, or no value; every other field is a string or absent.     *)
(* An entry of the directory has the parsed value of its text, or null.    *)
(***************************************************************************)
REQUIRED_FIELDS ==
  <<"resourceType", "id", "url", "name", "title", "status", "description",
    "concept">>

VALID_STATUSES ==
  { StatusDraft, <<"a","c","t","i","v","e">>, <<"r","e","t","i","r","e","d">>,
    <<"u","n","k","n","o","w","n">> }

\* URL_PATTERN.test(url): /^https:\/\/bind\.codes\/[a-z][a-z0-9-]*$/
matchesUrlPattern(url) ==
  /\ startsWith(url, UrlBase)
  /\ Len(url) > Len(UrlBase)
  /\ url[Len(UrlBase) + 1] \in LowerSet
  /\ \A i \in (Len(UrlBase) + 1)..Len(url) :
       url[i] \in LowerSet \cup DigitSet \cup {"-"}

\* data[field] === undefined || data[field] === null
fieldMissing(data, field) ==
  IF field = "concept" THEN data.concept.kind = "absent"
  ELSE data[field] = Absent

missingFields(data) ==
  Cardinality({ i \in DOMAIN REQUIRED_FIELDS : fieldMissing(data, REQUIRED_FIELDS[i]) })

\* file.replace(/\.json$/, "")
expectedId(file) ==
  IF endsWith(file, DotJson) THEN SubSeq(file, 1, Len(file) - Len(DotJson))
  ELSE file

\* The number of true conditions among those of a sequence.
RECURSIVE countTrue(_)
countTrue(conds) ==
  IF conds = <<>> THEN 0
  ELSE (IF Head(conds) THEN 1 ELSE 0) + countTrue(Tail(conds))

\* The calls of fail for resourceType, id, url (twice) and status.
headerErrors(file, data) ==
  countTrue(<< data.resourceType # ResourceTypeCodeSystem,
               data.id # expectedId(file),
               ~matchesUrlPattern(data.url),
               ~endsWith(data.url, <<"/">> \o data.id),
               data.status \notin VALID_STATUSES >>)

\* !concept.code || typeof concept.code !== "string", and the same of display.
emptyOrMissing(text) == text = Absent \/ text = <<>>

\* No call of fail for a code already seen.
noDuplicateErrors(items) == 0

\* if (codes.has(concept.code)) fail(...); codes.add(concept.code);
duplicateErrors(items) ==
  Cardinality({ i \in DOMAIN items :
                  \E j \in DOMAIN items : j < i /\ items[j].code = items[i].code })

\* The calls of fail of the loop over the concepts.
conceptErrors(items) ==
  Cardinality({ i \in DOMAIN items : emptyOrMissing(items[i].code) })
    + Cardinality({ i \in DOMAIN items : emptyOrMissing(items[i].display) })
    + duplicateErrors(items)

\* One pass of the loop over jsonFiles: the number of calls of fail, and
\* whether pass(file) is called.
checkFile(entry) ==
  IF entry.kind # "json" THEN [errors |-> 1, ok |-> FALSE]
  ELSE IF missingFields(entry.value[1]) > 0
  THEN [errors |-> missingFields(entry.value[1]), ok |-> FALSE]
  ELSE IF entry.value[1].concept.kind # "array" \/ entry.value[1].concept.items = <<>>
  THEN [errors |-> headerErrors(entry.name, entry.value[1]) + 1, ok |-> FALSE]
  ELSE [errors |-> headerErrors(entry.name, entry.value[1])
                     + conceptErrors(entry.value[1].concept.items),
        ok     |-> headerErrors(entry.name, entry.value[1])
                     + conceptErrors(entry.value[1].concept.items) = 0]

\* entries.filter((f) => f.endsWith(".json") && !f.startsWith("_")).sort()
jsonFilesOf(entries) ==
  sortIds({ entries[i].name :
              i \in { j \in DOMAIN entries :
                        /\ endsWith(entries[j].name, DotJson)
                        /\ ~startsWith(entries[j].name, <<"_">>) } })

fileNamed(entries, name) ==
  entries[CHOOSE i \in DOMAIN entries : entries[i].name = name]

\* The number of record files of a directory.
MaxFiles == 2

ValidatedIds == <<IdCoverage, IdRiskType, IdConstructionType>>

otherId(id) == IF id = IdCoverage THEN IdRiskType ELSE IdCoverage

jsonConcept(code, display) == [code |-> code, display |-> display]

conceptArray(items) == [kind |-> "array", items |-> items]

\* A record as the converter writes it, with two concepts.
validData(id) ==
  [ freshCodeSystem(id, <<>>) EXCEPT
      !.concept = conceptArray(<< jsonConcept(<<"A">>, StrWoodFrame),
                                  jsonConcept(<<"1">>, StrBois) >>) ]

\* The parsed contents a record file of an id may have: a valid record, and
\* records with one defect each.
DataOf(id) ==
  { validData(id),
    [validData(id) EXCEPT !.name = Absent],
    [validData(id) EXCEPT !.description = Absent, !.status = <<"f","i","n","a","l">>],
    [validData(id) EXCEPT !.concept = [kind |-> "absent", items |-> <<>>]],
    [validData(id) EXCEPT !.resourceType = <<"V","a","l","u","e","S","e","t">>],
    [validData(id) EXCEPT !.id = otherId(id), !.url = UrlBase \o otherId(id)],
    [validData(id) EXCEPT !.url = <<"h","t","t","p","s",":","/","/","e","x","a","m","p","l","e",".","o","r","g","/">> \o id],
    [validData(id) EXCEPT !.url = UrlBase \o <<"X">> \o <<"/">> \o id],
    [validData(id) EXCEPT !.url = UrlBase \o otherId(id)],
    [validData(id) EXCEPT !.status = <<"f","i","n","a","l">>],
    [validData(id) EXCEPT !.concept = conceptArray(<<>>)],
    [validData(id) EXCEPT !.concept = [kind |-> "string", items |-> <<>>]],
    [validData(id) EXCEPT !.concept =
       conceptArray(<< jsonConcept(<<>>, StrWoodFrame) >>)],
    [validData(id) EXCEPT !.concept =
       conceptArray(<< jsonConcept(<<"A">>, Absent) >>)],
    [validData(id) EXCEPT !.concept =
       conceptArray(<< jsonConcept(<<"A">>, StrWoodFrame),
                       jsonConcept(<<"A">>, StrBois) >>)],
    [validData(id) EXCEPT !.concept =
       conceptArray(<< jsonConcept(<<"A">>, StrWoodFrame) >>)] }

RecordFilesOf(id) ==
  { [name |-> id \o DotJson, kind |-> "json", value |-> Some(d)] : d \in DataOf(id) }
    \cup { [name |-> id \o DotJson, kind |-> "invalid", value |-> Null] }

\* The entries of the directory that are not record files.
OtherEntries ==
  << [name |-> <<"_","m","a","n","i","f","e","s","t",".","j","s","o","n">>,
      kind |-> "json", value |-> Null],
     [name |-> FileReadme, kind |-> "text", value |-> Null] >>

\* The directories with the record files of the first n ids, the last
\* first, among or without the other entries.
RECURSIVE DirectoriesOf(_)
DirectoriesOf(n) ==
  IF n = 0 THEN { <<>>, OtherEntries }
  ELSE { <<f>> \o rest : f \in RecordFilesOf(ValidatedIds[n]),
                         rest \in DirectoriesOf(n - 1) }

ValidateInit ==
  /\ dirEntries \in UNION { DirectoriesOf(n) : n \in 0..MaxFiles }
  /\ jsonFiles = <<>>
  /\ errors = 0
  /\ passed = {}
  /\ validateExit = Null
  /\ pc = "readdir"
  /\ NoRun
  /\ DeriveIdle
  /\ EnrichIdle
  /\ LocalizeIdle
  /\ ManifestIdle

validateFrame ==
  UNCHANGED << mainVars, deriveVars, enrichVars, localizeVars, manifestVars,
               dirEntries >>

\* readdir, filter and sort; process.exit(1) when no file is left.
ListFiles ==
  /\ pc = "readdir"
  /\ jsonFiles' = jsonFilesOf(dirEntries)
  /\ IF jsonFiles' = <<>>
     THEN validateExit' = Some(1) /\ pc' = "exited"
     ELSE validateExit' = validateExit /\ pc' = "check"
  /\ UNCHANGED << errors, passed >>
  /\ validateFrame

\* One pass of the loop over jsonFiles.
CheckFile ==
  /\ pc = "check"
  /\ jsonFiles # <<>>
  /\ errors' = errors + checkFile(fileNamed(dirEntries, Head(jsonFiles))).errors
  /\ passed' = IF checkFile(fileNamed(dirEntries, Head(jsonFiles))).ok
               THEN passed \cup {Head(jsonFiles)} ELSE passed
  /\ jsonFiles' = Tail(jsonFiles)
  /\ UNCHANGED << pc, validateExit >>
  /\ validateFrame

\* if (errors > 0) process.exit(1); otherwise main returns.
Finish ==
  /\ pc = "check"
  /\ jsonFiles = <<>>
  /\ validateExit' = Some(IF errors > 0 THEN 1 ELSE 0)
  /\ pc' = "exited"
  /\ UNCHANGED << jsonFiles, errors, passed >>
  /\ validateFrame

ValidateNext ==
  \/ ListFiles
  \/ CheckFile
  \/ Finish

SpecValidate == ValidateInit /\ [][ValidateNext]_vars

(***************************************************************************)
(* Properties of a run of the converter.                                   *)
(***************************************************************************)
distinctCodes(concepts) ==
  \A i, j \in DOMAIN concepts : concepts[i].code = concepts[j].code => i = j

\* Every concept of before is a concept of after, with the same code, display,
\* definition and designations.
conceptsKept(before, after) ==
  \A i \in DOMAIN before : \E j \in DOMAIN after : after[j] = before[i]

secondRunDone == run >= 2 /\ pc = "done"

\* C1: append-only.  Every concept of a record that was on disk when the run
\* started is still in that record, unchanged, at every point of the run; and
\* the record a build returns holds every concept of the record it was given.
AppendOnly ==
  /\ \A id \in DOMAIN diskAtStart :
       diskAtStart[id].kind = "json" =>
         /\ id \in DOMAIN disk
         /\ disk[id].kind = "json"
         /\ conceptsKept(diskAtStart[id].value.concept, disk[id].value.concept)
  /\ (pc = "emit" /\ existingCS # Null) =>
       conceptsKept(existingCS[1].concept, built[1].cs.concept)

\* A run is over that has appended concepts to a record that had some.
AppendOnlyWitness ==
  /\ pc = "done"
  /\ \E id \in DOMAIN diskAtStart :
       /\ diskAtStart[id].kind = "json"
       /\ diskAtStart[id].value.concept # <<>>
       /\ Len(disk[id].value.concept) > Len(diskAtStart[id].value.concept)

\* C2: idempotence of merging.  From the start of a second run on, the concept
\* list of every record is the one the previous run left.
MergeIdempotent ==
  run >= 2 =>
    \A id \in DOMAIN disk :
      /\ id \in DOMAIN diskAtStart
      /\ disk[id].kind = "json" =>
           disk[id].value.concept = diskAtStart[id].value.concept

\* A second run is over that has written a record again, after a run that
\* wrote records.
MergeIdempotentWitness ==
  /\ secondRunDone
  /\ prevCounts.created + prevCounts.merged > 0
  /\ counts.merged > 0

\* C3, as stated: after a second run every record file and the mapping file,
\* generatedAt included, are what the first run left.
RerunByteIdentical ==
  secondRunDone => (disk = diskAtStart /\ mappingFile = mappingAtStart)

withoutTime(document) == [document EXCEPT !.generatedAt = 0]

\* C3, amended: after a second run every record file is what the first run
\* left, and so is the mapping file but for its generatedAt.
RerunIdenticalButTime ==
  secondRunDone =>
    /\ disk = diskAtStart
    /\ mappingAtStart # Null
    /\ withoutTime(mappingFile[1]) = withoutTime(mappingAtStart[1])

\* A second run is over that has written a record and a mapping file with
\* entries, and the mapping file is not the one of the first run.
RerunWitness ==
  /\ secondRunDone
  /\ counts.merged > 0
  /\ mappingFile[1].totalMappings > 0
  /\ mappingFile # mappingAtStart

recordToWrite == pc = "emit" /\ Len(built[1].cs.concept) # 0

\* C4, as stated: the codes of every record about to be written are pairwise
\* distinct.
WrittenCodesDistinct ==
  recordToWrite => distinctCodes(built[1].cs.concept)

existingDistinct == existingCS = Null \/ distinctCodes(existingCS[1].concept)

\* C4, amended: the codes of every record about to be written are pairwise
\* distinct, provided those of the record already on disk, if any, are.
WrittenCodesDistinctIfExistingAre ==
  (recordToWrite /\ existingDistinct) => distinctCodes(built[1].cs.concept)

\* A record with distinct codes is merged: a concept is appended, and a
\* candidate is refused.
WrittenCodesWitness ==
  /\ recordToWrite
  /\ existingCS # Null
  /\ distinctCodes(existingCS[1].concept)
  /\ Len(built[1].from) > 0
  /\ Len(built[1].pushed) > Len(built[1].from)

\* The upstream entry carries a deprecation marker: the flag of a code-list
\* entry, or a display that starts with DEPRECATED in either shape.
carriesMarker(t) ==
  \/ t.shape = "codeList" /\ t.entry.deprecated
  \/ t.entry.display # Absent /\ startsWith(t.entry.display, MarkerDeprecated)

appended == SubSeq(built[1].cs.concept,
              Len(built[1].cs.concept) - Len(built[1].from) + 1,
              Len(built[1].cs.concept))

\* C5: deprecation exclusion.  The concepts a build appends are those built
\* from the entries it recorded, in order, and none of these entries carries
\* a deprecation marker.
DeprecationExcluded ==
  pc = "emit" =>
    \A i \in DOMAIN built[1].from :
      /\ ~carriesMarker(built[1].from[i])
      /\ appended[i].code =
           deriveBINDCode(built[1].from[i].entry.code, built[1].from[i].entry.display)

someEntry(id, P(_)) ==
  \/ /\ id \in DOMAIN codeListMap
     /\ \E i \in DOMAIN codeListMap[id].codes :
          P([shape |-> "codeList", entry |-> codeListMap[id].codes[i]])
  \/ /\ id \in DOMAIN topLevelMap
     /\ \E i \in DOMAIN topLevelMap[id] :
          P([shape |-> "topLevel", entry |-> topLevelMap[id][i]])

\* A build has appended concepts from both shapes, and an entry of the id
\* carries a deprecation marker.
DeprecationExcludedWitness ==
  /\ pc = "emit"
  /\ \E i, j \in DOMAIN built[1].from :
       built[1].from[i].shape = "codeList" /\ built[1].from[j].shape = "topLevel"
  /\ someEntry(Head(todo), carriesMarker)

\* The entries of one shape, each with its shape.
entriesOf(shape, id) ==
  IF shape = "codeList"
  THEN IF id \in DOMAIN codeListMap THEN tagged(shape, codeListMap[id].codes) ELSE <<>>
  ELSE IF id \in DOMAIN topLevelMap THEN tagged(shape, topLevelMap[id]) ELSE <<>>

\* The winners of one shape, in the order of the map: [key, val].
winnersOf(shape, id) ==
  IF shape = "codeList"
  THEN IF id \in DOMAIN codeListMap THEN seenCodeList(codeListMap[id]).seen ELSE <<>>
  ELSE IF id \in DOMAIN topLevelMap THEN seenTopLevel(topLevelMap[id]) ELSE <<>>

sourceFileOf(shape, id) ==
  IF shape = "codeList"
  THEN codeListSourceFile(codeListMap[id])
  ELSE topLevelSourceFile(id)

derivedCode(t) == deriveBINDCode(t.entry.code, t.entry.display)

recordsOfFile(ms, file, id) ==
  { i \in DOMAIN ms : ms[i].sourceFile = file /\ ms[i].codeSystemId = id }

recordsOfCode(ms, bindCode, file, id) ==
  { i \in recordsOfFile(ms, file, id) : ms[i].bindCode = bindCode }

\* Every entry has its record, and there are as many records as entries.
allRecorded(entries, ms, file, id) ==
  /\ \A i \in DOMAIN entries :
       mappingEntry(derivedCode(entries[i]), entries[i].entry.code, file, id)
         \in { ms[k] : k \in DOMAIN ms }
  /\ Cardinality(recordsOfFile(ms, file, id)) = Len(entries)

Shapes == {"codeList", "topLevel"}

\* C6, as stated: provenance completeness.  After the build of an id, every
\* entry of either shape, winner or not, deprecated or not, has contributed
\* its mapping entry: there is one for each.
ProvenanceComplete ==
  pc = "emit" =>
    \A shape \in Shapes :
      entriesOf(shape, Head(todo)) # <<>> =>
        allRecorded(entriesOf(shape, Head(todo)), mappings,
                    sourceFileOf(shape, Head(todo)), Head(todo))

woodFrameScenario ==
  /\ srcCodeLists = <<>>
  /\ srcTopLevel =
       << topLevelFile(FileConstructionTypes,
            << [code |-> StrOne, display |-> StrWoodFrame],
               [code |-> StrOne, display |-> StrDeprecatedWoodFrame] >>) >>
  /\ diskAtStart = EmptyMap
  /\ run = 1
  /\ pc = "done"

oneWoodFrame(concepts) ==
  /\ Len(concepts) = 1
  /\ concepts[1].code = StrWoodFrameSlug
  /\ concepts[1].display = StrWoodFrame

\* C7, as stated: the run over the two Wood Frame entries alone leaves a
\* record with the one concept wood-frame / Wood Frame, and a mapping with
\* exactly two entries for the id.
WoodFrameScenario ==
  woodFrameScenario =>
    /\ IdConstructionType \in DOMAIN disk
    /\ oneWoodFrame(disk[IdConstructionType].value.concept)
    /\ Cardinality({ i \in DOMAIN mappingFile[1].mappings :
         mappingFile[1].mappings[i].codeSystemId = IdConstructionType }) = 2

\* A winner that does not carry a marker and has a display.
keptWinner(shape, w) ==
  /\ ~carriesMarker([shape |-> shape, entry |-> w.val])
  /\ truthy(w.val.display)

codeCount(concepts, code) ==
  Cardinality({ i \in DOMAIN concepts : concepts[i].code = code })

exactlyOnce(shape, winners, file, id) ==
  \A i \in DOMAIN winners :
    keptWinner(shape, winners[i]) =>
      /\ codeCount(built[1].cs.concept, winners[i].key) = 1
      /\ Cardinality(recordsOfCode(mappings, winners[i].key, file, id)) = 1

\* C8: exactly once.  When the codes of the existing record, if any, are
\* distinct, then after the build of an id every winner of either shape that
\* is not deprecated and has a display has its code exactly once in the
\* record, and exactly one mapping entry for its shape's source file.
ExactlyOnce ==
  (pc = "emit" /\ existingDistinct) =>
    \A shape \in Shapes :
      winnersOf(shape, Head(todo)) # <<>> =>
        exactlyOnce(shape, winnersOf(shape, Head(todo)),
                    sourceFileOf(shape, Head(todo)), Head(todo))

\* A record with distinct codes is merged; a winner of the top-level shape is
\* in it already, and a winner of the code list is appended.
ExactlyOnceWitness ==
  /\ pc = "emit"
  /\ existingCS # Null
  /\ distinctCodes(existingCS[1].concept)
  /\ \E i \in DOMAIN winnersOf("topLevel", Head(todo)) :
       /\ keptWinner("topLevel", winnersOf("topLevel", Head(todo))[i])
       /\ winnersOf("topLevel", Head(todo))[i].key \in existingCodesOf(existingCS)
  /\ \E i \in DOMAIN built[1].from : built[1].from[i].shape = "codeList"

\* The indices of the entries that derive to the code.
sameCode(entries, key) == { i \in DOMAIN entries : derivedCode(entries[i]) = key }

firstOf(idx) == CHOOSE i \in idx : \A j \in idx : i <= j

\* The winner the tie-break names among the entries idx, first of them first.
statedWinner(entries, idx, first, winner) ==
  IF /\ carriesMarker(entries[first])
     /\ \E j \in idx : j > first /\ ~carriesMarker(entries[j])
  THEN \E j \in idx :
         j > first /\ ~carriesMarker(entries[j]) /\ winner = entries[j].entry
  ELSE winner = entries[first].entry

tieBreak(entries, winners) ==
  \A i \in DOMAIN winners :
    statedWinner(entries, sameCode(entries, winners[i].key),
                 firstOf(sameCode(entries, winners[i].key)), winners[i].val)

\* C10, as stated: in both shapes, the winner of a code is a later entry that
\* is not deprecated when the first entry of the code is deprecated (by its
\* flag or by its display) and there is one; it is the first entry otherwise.
TieBreakAsStated ==
  pc = "emit" =>
    \A shape \in Shapes :
      tieBreak(entriesOf(shape, Head(todo)), winnersOf(shape, Head(todo)))

(***************************************************************************)
(* Properties of deriveBINDCode.                                           *)
(***************************************************************************)
Prefixes == {PrefixCsio, PrefixAcord}

hasPrefix(s) == \E p \in Prefixes : startsWith(s, p)

\* s is a concatenation of prefixes.
RECURSIVE prefixChain(_)
prefixChain(s) ==
  \/ s = <<>>
  \/ \E p \in Prefixes : startsWith(s, p) /\ prefixChain(dropChars(s, Len(p)))

\* What is left of the code once the prefixes in front of it are stripped,
\* said without the loop: a tail of the code that starts with no prefix and
\* follows a concatenation of prefixes.
remainders(code) ==
  { dropChars(code, k) : k \in { n \in 0..Len(code) :
      /\ prefixChain(SubSeq(code, 1, n))
      /\ ~hasPrefix(dropChars(code, n)) } }

\* The result for a remainder when the slug is taken from text.
resultFor(remainder, display, text) ==
  IF isNumericOnly(remainder) /\ truthy(display)
  THEN IF displayToSlug(text) # <<>> THEN displayToSlug(text) ELSE remainder
  ELSE remainder

derived(code, display, result) ==
  dCode = code /\ dDisplay = display => dResult[1] = result

\* The three derivations given as examples.
derivedExamples ==
  /\ derived(PrefixCsio \o StrAuto, StrAutomobile, StrAuto)
  /\ derived(StrNumeric, StrFireAndTheft,
             <<"f","i","r","e","-","a","n","d","-","t","h","e","f","t">>)
  /\ derived(PrefixAcord \o StrZero, <<>>, StrZero)

\* C9, as stated: the code returned is the code without the prefixes in front
\* of it, but the slug of the display when that remainder is digits only and
\* the display is not empty, unless the slug is empty; and the three examples
\* give AUTO, fire-and-theft and 0.
DerivedFromDisplay ==
  dResult # Null =>
    /\ \E r \in remainders(dCode) : dResult[1] = resultFor(r, dDisplay, dDisplay)
    /\ derivedExamples

\* A slug: lower-case letters, digits and single hyphens between them.
slugShaped(s) ==
  /\ \A i \in DOMAIN s : s[i] \in LowerSet \cup DigitSet \cup {"-"}
  /\ s # <<>> => s[1] # "-" /\ s[Len(s)] # "-"
  /\ \A i \in 1..(Len(s) - 1) : ~(s[i] = "-" /\ s[i + 1] = "-")

\* C9, amended: as stated, with the slug taken from the display once its
\* DEPRECATED or DE'SUET marker is removed and it is trimmed; a code that
\* differs from the remainder is a slug.
DerivedFromCleanDisplay ==
  dResult # Null =>
    /\ \E r \in remainders(dCode) :
         /\ dResult[1] = resultFor(r, dDisplay, cleanDisplay(dDisplay))
         /\ dResult[1] # r => slugShaped(dResult[1])
    /\ derivedExamples

\* Two prefixes are stripped from a numeric code whose display carries the
\* marker, and the code returned is the slug of the rest of the display.
DerivedWitness ==
  /\ dResult # Null
  /\ dCode = PrefixCsio \o PrefixAcord \o StrNumeric
  /\ dDisplay = MarkerDeprecated \o <<" ">> \o StrAutomobile
  /\ dResult[1] = <<"a","u","t","o","m","o","b","i","l","e">>

(***************************************************************************)
(* The cross-source enricher in a run of the converter.                    *)
(***************************************************************************)
describedByBoth(id) == id \in DOMAIN topLevelMap /\ id \in DOMAIN codeListMap

\* No run calls enrichWithCodeList: main calls it only in the branch it takes
\* when codeListMap has no value for the id, on a value of that id.
EnricherNeverInvoked == pc = "emit" => ~built[1].enriched

\* A concept of the record built that a pass of the enricher would change: it
\* has no designation and an entry of the code list matches it and carries a
\* French text.
enrichable(cs, cl) == \E i \in DOMAIN cs.concept : enrichConcept(cs.concept[i], cl) # cs.concept[i]

\* C11: the cross-source enricher is applied in a run.  When both shapes
\* describe the id in progress, main has called enrichWithCodeList on the
\* record it built, so that no concept without designation is left that an
\* entry of the code list of that id matches and translates.
EnricherApplied ==
  (pc = "emit" /\ describedByBoth(Head(todo))) =>
    ~enrichable(built[1].cs, codeListMap[Head(todo)])
(***************************************************************************)
(* Properties of enrichWithCodeList alone.                                 *)
(***************************************************************************)
\* What the enricher may do to one concept: nothing, or, when the concept had
\* no designation, give it one designation, in the secondary language.
enrichedFrom(before, after) ==
  /\ after.code = before.code
  /\ after.display = before.display
  /\ after.definition = before.definition
  /\ before.designation # <<>> => after = before
  /\ after # before =>
       /\ Len(after.designation) = 1
       /\ after.designation[1].language = LangFrCA
       /\ [after EXCEPT !.designation = <<>>] = before

\* C12: frame of the enricher.  enrichWithCodeList returns the record with
\* the same concepts in the same order; a concept that already has a
\* designation is returned as it was, whatever entry matches it by code or by
\* display; a concept that had none keeps its code, display and definition
\* and at most gains one fr-CA designation.
EnrichFrame ==
  eResult # Null =>
    /\ [eResult[1] EXCEPT !.concept = eCs[1].concept] = eCs[1]
    /\ DOMAIN eResult[1].concept = DOMAIN eCs[1].concept
    /\ \A i \in DOMAIN eCs[1].concept :
         enrichedFrom(eCs[1].concept[i], eResult[1].concept[i])

\* An entry of the code list with a French text matches the concept by code
\* or by display.
translatedMatch(concept, codes) ==
  \E k \in DOMAIN codes :
    /\ codes[k].display_fr = StrBois
    /\ \/ codes[k].code = concept.code
       \/ toLowerCase(cleanDisplay(codes[k].display)) = toLowerCase(concept.display)

\* The first concept has a designation and the second has none; entries with
\* a French text match both, the first by code; the first is returned as it
\* was and the second with the French text as its designation.
EnrichFrameWitness ==
  /\ eResult # Null
  /\ eCs[1].concept[1].designation # <<>>
  /\ eCs[1].concept[1].code = <<"A">>
  /\ \E k \in DOMAIN eCl[1].codes :
       eCl[1].codes[k].code = <<"A">> /\ eCl[1].codes[k].display_fr = StrBois
  /\ eCs[1].concept[2].designation = <<>>
  /\ translatedMatch(eCs[1].concept[2], eCl[1].codes)
  /\ eResult[1].concept[1] = eCs[1].concept[1]
  /\ eResult[1].concept[2].designation = <<[language |-> LangFrCA, value |-> StrBois]>>

(***************************************************************************)
(* Properties of a run over a tree of three vocabularies.                  *)
(***************************************************************************)
\* C13: empty result.  When the record built for an id has no concept, the
\* step main takes writes no file (the output directory, and so any record
\* of that id, is left as it was), counts the id as skipped and nothing
\* else, does not end the process, and goes on to the next id, if any.
SkipsEmpty ==
  [][ (pc = "emit" /\ Len(built[1].cs.concept) = 0) =>
        /\ disk' = disk
        /\ counts' = [counts EXCEPT !.skipped = @ + 1]
        /\ exitCode' = exitCode
        /\ todo' = Tail(todo)
        /\ pc' = IF Tail(todo) = <<>> THEN "writeMapping" ELSE "load" ]_vars

\* The first id had nothing but a deprecated entry and a record without
\* concepts: it was skipped, its record is the one the run found, and the
\* next id is about to be processed.
SkipsEmptyWitness ==
  /\ pc = "load"
  /\ counts = [created |-> 0, merged |-> 0, skipped |-> 1]
  /\ IdConstructionType \in DOMAIN topLevelMap
  /\ Head(todo) # IdConstructionType
  /\ IdConstructionType \in DOMAIN disk
  /\ disk[IdConstructionType] = diskAtStart[IdConstructionType]

\* The file the reader is at is text that does not parse.
atInvalid(files) == fileIdx <= Len(files) /\ files[fileIdx].kind = "invalid"

\* The step after the file the reader is at: the next file, or the return.
readerGoesOn(files, after) ==
  /\ exitCode' = exitCode
  /\ IF fileIdx < Len(files)
     THEN pc' = pc /\ fileIdx' = fileIdx + 1
     ELSE pc' = after

\* The simple-array files that parse as arrays are in the map, each id with
\* the entries of its last file, and nothing else is.
topLevelIngested ==
  /\ DOMAIN topLevelMap =
       { topLevelId(topLevelFiles[i].name) :
           i \in { j \in DOMAIN topLevelFiles : topLevelFiles[j].kind = "array" } }
  /\ \A i \in DOMAIN topLevelFiles :
       ( /\ topLevelFiles[i].kind = "array"
         /\ \A j \in DOMAIN topLevelFiles :
              (j > i /\ topLevelFiles[j].kind = "array") =>
                topLevelId(topLevelFiles[j].name) # topLevelId(topLevelFiles[i].name) )
       => topLevelMap[topLevelId(topLevelFiles[i].name)] = topLevelFiles[i].entries

\* The same for the structured files that are code lists.
codeListsIngested ==
  /\ DOMAIN codeListMap =
       { codeListId(codeListFiles[i].value.code_list_name) :
           i \in { j \in DOMAIN codeListFiles : codeListFiles[j].kind = "list" } }
  /\ \A i \in DOMAIN codeListFiles :
       ( /\ codeListFiles[i].kind = "list"
         /\ \A j \in DOMAIN codeListFiles :
              (j > i /\ codeListFiles[j].kind = "list") =>
                codeListId(codeListFiles[j].value.code_list_name)
                  # codeListId(codeListFiles[i].value.code_list_name) )
       => codeListMap[codeListId(codeListFiles[i].value.code_list_name)]
            = codeListFiles[i].value

\* C14: parse failure is non-fatal for either shape.  The step a reader takes
\* at a file that is not valid JSON adds nothing to its map, does not end the
\* process and moves to the next file or returns; and once both readers have
\* returned, every file that does parse to its shape has been ingested.
InvalidSkipped ==
  /\ [][ /\ (pc = "readTopLevel" /\ atInvalid(topLevelFiles)) =>
              (topLevelMap' = topLevelMap /\ readerGoesOn(topLevelFiles, "readCodeLists"))
         /\ (pc = "readCodeLists" /\ atInvalid(codeListFiles)) =>
              (codeListMap' = codeListMap /\ readerGoesOn(codeListFiles, "collect")) ]_vars
  /\ [](pc = "collect" => (topLevelIngested /\ codeListsIngested))

\* Both directories start with a file that does not parse, both readers have
\* returned, and the files that follow are in the maps.
InvalidSkippedWitness ==
  /\ pc = "collect"
  /\ srcTopLevel # <<>> /\ srcTopLevel[1].kind = "invalid"
  /\ srcCodeLists # <<>> /\ srcCodeLists[1].kind = "invalid"
  /\ IdCoverage \in DOMAIN topLevelMap
  /\ IdRiskType \in DOMAIN topLevelMap
  /\ IdRiskType \in DOMAIN codeListMap

\* The structured file the reader is at parses as JSON and is no code list:
\* it is the value null, or a value without code_list_name or codes.
atMismatch(files) ==
  fileIdx <= Len(files) /\ files[fileIdx].kind \in {"null", "other"}

\* C15: shape mismatch is non-fatal.  The step the reader of the structured
\* files takes at a file that parses as JSON and lacks the name or the codes
\* field, whatever JSON value it holds, adds nothing to the map, does not end
\* the process and moves to the next file or returns.
ShapeMismatchSkipped ==
  [][ (pc = "readCodeLists" /\ atMismatch(codeListFiles)) =>
        (codeListMap' = codeListMap /\ readerGoesOn(codeListFiles, "collect")) ]_vars

\* The record of an id is the one the run found, or there is none as before.
untouched(id) ==
  IF id \in DOMAIN diskAtStart
  THEN id \in DOMAIN disk /\ disk[id] = diskAtStart[id]
  ELSE id \notin DOMAIN disk

\* C16: fatal error.  When an unhandled error ends the run while an id is in
\* progress, the exit status is not zero, the step that ends the run and the
\* ended run write nothing (so every record written for an earlier id
\* remains as written), and neither the id in progress nor any later id of
\* the sorted list has had a record written.
FatalKeepsEarlier ==
  /\ []( (pc = "failed" /\ todo # <<>>) =>
           /\ exitCode # Null /\ exitCode[1] # 0
           /\ \A i \in DOMAIN todo : untouched(todo[i]) )
  /\ [][ (pc' = "failed") => disk' = disk ]_vars

\* The run ended at the second id of three, whose record does not parse:
\* the first id has the record this run wrote, the third has none.
FatalKeepsEarlierWitness ==
  /\ pc = "failed"
  /\ todo = <<IdCoverage, IdRiskType>>
  /\ IdConstructionType \in DOMAIN disk
  /\ IdConstructionType \notin DOMAIN diskAtStart
  /\ IdRiskType \notin DOMAIN disk

\* The number of occurrences of x in ms.
occurrences(ms, x) == Cardinality({ i \in DOMAIN ms : ms[i] = x })

\* The same records, each as many times, in whatever order.
sameRecords(a, b) ==
  /\ Len(a) = Len(b)
  /\ \A i \in DOMAIN a : occurrences(a, a[i]) = occurrences(b, a[i])

\* No record comes before one that the order on (codeSystemId, bindCode)
\* puts before it.
nonDecreasing(ms) ==
  \A i \in DOMAIN ms : \A j \in DOMAIN ms :
    i < j => compareMappings(ms[i], ms[j]) <= 0

\* C17: the mapping file.  A run starts with no record accumulated; the step
\* that completes it writes a mapping file that holds exactly the records
\* accumulated during that run, each as many times, ordered non-decreasingly
\* by (codeSystemId, bindCode), with totalMappings their number.
MappingFileExact ==
  /\ [](pc = "readTopLevel" => mappings = <<>>)
  /\ [][ pc = "writeMapping" =>
           /\ mappingFile' # Null
           /\ sameRecords(mappingFile'[1].mappings, mappings)
           /\ nonDecreasing(mappingFile'[1].mappings)
           /\ mappingFile'[1].totalMappings = Len(mappings) ]_vars

\* The second run is complete over a mapping file of the first; the file
\* holds records of two ids, and one of the simple-array shape before one of
\* the structured shape of the same id, which was accumulated first.
MappingFileExactWitness ==
  /\ pc = "done"
  /\ run = 2
  /\ mappingAtStart # Null
  /\ \E i, j \in DOMAIN mappingFile[1].mappings :
       mappingFile[1].mappings[i].codeSystemId # mappingFile[1].mappings[j].codeSystemId
  /\ \E i, j \in DOMAIN mappingFile[1].mappings :
       /\ i < j
       /\ mappingFile[1].mappings[i].codeSystemId = mappingFile[1].mappings[j].codeSystemId
       /\ mappingFile[1].mappings[i].sourceFile = topLevelSourceFile(IdRiskType)
       /\ mappingFile[1].mappings[j].sourceFile # topLevelSourceFile(IdRiskType)

(***************************************************************************)
(* An id that both shapes describe.                                        *)
(***************************************************************************)
\* The concepts of the record found on disk.
existingConcepts == IF existingCS = Null THEN <<>> ELSE existingCS[1].concept

\* The number of concepts the build from the code list appended.
fromCodeList(from) == Cardinality({ i \in DOMAIN from : from[i].shape = "codeList" })

\* The record is the existing concepts, then those of the code list, each as
\* the code-list builder makes it from its entry, then those of the
\* top-level entries, each with a code no concept of the baseline has.
baselineThenTopLevel(concepts, from, old, id) ==
  /\ Len(concepts) = Len(old) + Len(from)
  /\ SubSeq(concepts, 1, Len(old)) = old
  /\ \A i \in DOMAIN from :
       IF i <= fromCodeList(from)
       THEN /\ from[i].shape = "codeList"
            /\ concepts[Len(old) + i] =
                 codeListConcept(derivedCode(from[i]), from[i].entry, toTitle(id))
       ELSE /\ from[i].shape = "topLevel"
            /\ concepts[Len(old) + i].code = derivedCode(from[i])
            /\ \A k \in 1..(Len(old) + fromCodeList(from)) :
                 concepts[k].code # concepts[Len(old) + i].code

\* C19: two-shape ordering.  When both shapes describe the id, the record
\* built is the baseline (the existing concepts followed by the concepts the
\* code list produced, unchanged, designation included) followed by the
\* concepts of the top-level entries whose derived code no concept of the
\* baseline has.
TwoShapeOrdering ==
  (pc = "emit" /\ describedByBoth(Head(todo))) =>
    baselineThenTopLevel(built[1].cs.concept, built[1].from, existingConcepts, Head(todo))

\* Both shapes contributed: a concept of the code list with its French
\* designation comes before a concept of a top-level entry, and another
\* top-level entry derived to a code of the baseline and added nothing.
TwoShapeOrderingWitness ==
  /\ pc = "emit"
  /\ describedByBoth(Head(todo))
  /\ Len(built[1].from) = 2
  /\ built[1].from[1].shape = "codeList"
  /\ built[1].from[2].shape = "topLevel"
  /\ appended[1].designation # <<>>
  /\ \E i \in DOMAIN topLevelMap[Head(todo)] :
       /\ truthy(topLevelMap[Head(todo)][i].display)
       /\ deriveBINDCode(topLevelMap[Head(todo)][i].code,
                         topLevelMap[Head(todo)][i].display) = appended[1].code

\* The winner of the code list for a derived code is deprecated and the
\* existing record does not have the code.
deprecatedWinner(w) ==
  /\ codeListDeprecated(w.val)
  /\ \A k \in DOMAIN existingConcepts : existingConcepts[k].code # w.key

\* C20: no reassignment of a deprecated identifier across shapes.  When both
\* shapes describe the id and the winner of the code list for a derived code
\* is deprecated, the code not being in the existing record, the run appends
\* no concept with that code.
NoReassignment ==
  (pc = "emit" /\ describedByBoth(Head(todo))) =>
    \A i \in DOMAIN winnersOf("codeList", Head(todo)) :
      deprecatedWinner(winnersOf("codeList", Head(todo))[i]) =>
        \A k \in DOMAIN appended :
          appended[k].code # winnersOf("codeList", Head(todo))[i].key

(***************************************************************************)
(* Properties of the serving layer.                                        *)
(***************************************************************************)
\* The concept has a designation in the language.
designated(c, lang) ==
  c.designation # Null /\ \E i \in DOMAIN c.designation[1] : c.designation[1][i].language = lang

\* The value of the first designation of the list in the language.
firstValue(ds, lang) ==
  ds[CHOOSE i \in DOMAIN ds :
       ds[i].language = lang /\ \A j \in 1..(i - 1) : ds[j].language # lang].value

\* The concept r returned for the concept c of the record.
localizedFor(c, r, lang) ==
  /\ r.code = c.code
  /\ r.definition = c.definition
  /\ IF truthy(lang) /\ designated(c, lang)
     THEN /\ r.display = firstValue(c.designation[1], lang)
          /\ designated(r, LangEn)
          /\ r.designation =
               IF designated(c, LangEn)
               THEN c.designation
               ELSE Some(<<[language |-> LangEn, value |-> c.display]>> \o c.designation[1])
     ELSE /\ r.display = c.display
          /\ r.designation = c.designation

\* The response to a request for the whole record.
recordLocalized(cs, response, lang) ==
  /\ response.status = 200
  /\ [response.body EXCEPT !.concept = cs.concept] = cs
  /\ DOMAIN response.body.concept = DOMAIN cs.concept
  /\ \A i \in DOMAIN cs.concept :
       localizedFor(cs.concept[i], response.body.concept[i], lang)

\* The response to a request for one concept by its code.
conceptLocalized(cs, code, response, lang) ==
  IF \E i \in DOMAIN cs.concept : cs.concept[i].code = code
  THEN /\ response.status = 200
       /\ response.body.system = cs.url
       /\ \E i \in DOMAIN cs.concept :
            /\ cs.concept[i].code = code
            /\ localizedFor(cs.concept[i], response.body, lang)
  ELSE response.status = 404

codeOf(entry) == deriveBINDCode(entry.code, entry.display)

\* Entry i is the first of its derived code and has no display text; the
\* later entry j derives to the same code, has display text and carries no
\* deprecation marker.
displayComesLater(entries, i, j) ==
  /\ i < j
  /\ \A k \in 1..(i - 1) : codeOf(entries[k]) # codeOf(entries[i])
  /\ ~truthy(entries[i].display)
  /\ codeOf(entries[j]) = codeOf(entries[i])
  /\ truthy(entries[j].display)
  /\ ~startsWith(entries[j].display, MarkerDeprecated)

\* C21: the de-duplication of the simple-array entries prefers an entry with
\* display text.  When the first entry of a derived code has no display text
\* and a later entry of that code has one and is not deprecated, the record
\* built for the id has a concept with that code.
DisplayPreferred ==
  (pc = "emit" /\ Head(todo) \in DOMAIN topLevelMap) =>
    \A i, j \in DOMAIN topLevelMap[Head(todo)] :
      displayComesLater(topLevelMap[Head(todo)], i, j) =>
        \E k \in DOMAIN built[1].cs.concept :
          built[1].cs.concept[k].code = codeOf(topLevelMap[Head(todo)][i])

(***************************************************************************)
(* The matching order of enrichWithCodeList alone.                         *)
(***************************************************************************)
\* The entries of the code list whose raw code is the code of the concept.
codeMatches(concept, codes) == { k \in DOMAIN codes : codes[k].code = concept.code }

\* The entries whose display, its marker stripped and in lower case, is the
\* display of the concept in lower case.
displayMatches(concept, codes) ==
  { k \in DOMAIN codes :
      /\ truthy(codes[k].display)
      /\ toLowerCase(cleanDisplay(codes[k].display)) = toLowerCase(concept.display) }

\* The last of a set of entries: a later entry replaces an earlier one.
lastOf(ks) == CHOOSE k \in ks : \A m \in ks : m <= k

\* The designation the enricher takes from an entry.
designationOf(entry) ==
  IF truthy(entry.display_fr) /\ cleanDisplay(entry.display_fr) # <<>>
  THEN <<[language |-> LangFrCA, value |-> cleanDisplay(entry.display_fr)]>>
  ELSE <<>>

\* The designation of a candidate after the pass: that of the entry matched
\* by code if there is one, else that of the entry matched by display if
\* there is one, else none.
matchedInOrder(concept, codes, after) ==
  IF codeMatches(concept, codes) # {}
  THEN after.designation = designationOf(codes[lastOf(codeMatches(concept, codes))])
  ELSE IF displayMatches(concept, codes) # {}
  THEN after.designation = designationOf(codes[lastOf(displayMatches(concept, codes))])
  ELSE after.designation = <<>>

NameOf ==
  (IdConstructionType :> NameConstructionType)
    @@ (IdCoverage :> <<"C","o","v","e","r","a","g","e">>)
    @@ (IdRiskType :> NameRiskType)

TitleOf ==
  (IdConstructionType :>
     <<"C","o","n","s","t","r","u","c","t","i","o","n"," ","T","y","p","e">>)
    @@ (IdCoverage :> <<"C","o","v","e","r","a","g","e">>)
    @@ (IdRiskType :> <<"R","i","s","k"," ","T","y","p","e">>)

UrlOf(id) ==
  <<"h","t","t","p","s",":","/","/","b","i","n","d",".","c","o","d","e","s","/">> \o id

\* The metadata of a record constructed for an id that had none.
freshMetadata(cs, id) ==
  /\ cs.resourceType = <<"C","o","d","e","S","y","s","t","e","m">>
  /\ cs.id = id
  /\ cs.url = UrlOf(id)
  /\ cs.status = <<"d","r","a","f","t">>
  /\ cs.language = <<"e","n">>
  /\ cs.name = NameOf[id]
  /\ cs.title = TitleOf[id]

\* C23, as stated: the record built for an id without existing record has
\* the metadata of a fresh record, and every record about to be written has
\* the url https://bind.codes/<id>.
FreshMetadataAndUrl ==
  /\ (pc = "emit" /\ existingCS = Null) => freshMetadata(built[1].cs, Head(todo))
  /\ recordToWrite => built[1].cs.url = UrlOf(Head(todo))

\* C23, amended: as stated, the url of a record about to be written being
\* https://bind.codes/<id> when the id had no record or had one with that
\* url; the record of an id that had one keeps the url it had.
FreshMetadataAndKeptUrl ==
  /\ (pc = "emit" /\ existingCS = Null) => freshMetadata(built[1].cs, Head(todo))
  /\ (recordToWrite /\ existingCS # Null) => built[1].cs.url = existingCS[1].url
  /\ (recordToWrite /\ existingCS # Null /\ existingCS[1].url = UrlOf(Head(todo))) =>
       built[1].cs.url = UrlOf(Head(todo))

\* A record is about to be written for the id coverage, which had none, and
\* the first id, which had a record, has been written.
FreshMetadataWitness ==
  /\ recordToWrite
  /\ existingCS = Null
  /\ Head(todo) = IdCoverage
  /\ counts.merged = 1
  /\ built[1].cs.name = <<"C","o","v","e","r","a","g","e">>


(***************************************************************************)
(* The stages of a run.                                                    *)
(***************************************************************************)
allIds == DOMAIN topLevelMap \cup DOMAIN codeListMap

remaining == { todo[i] : i \in DOMAIN todo }

\* Both readers have returned, each with every file of its directory read.
sourcesIngested == topLevelIngested /\ codeListsIngested

\* The id at the head of the queue comes after every id already processed
\* and before every id still waiting.
headInOrder ==
  /\ \A id \in allIds \ remaining : codeUnitLess(id, Head(todo))
  /\ \A i \in DOMAIN todo : i > 1 => codeUnitLess(Head(todo), todo[i])

\* C24: no record file is loaded or written before both readers have
\* ingested every source file, and the ingested maps do not change
\* afterwards; the ids are processed one at a time in sorted order, the
\* record of an id being loaded only when no built record awaits its write
\* and every smaller id has left the queue; a write is of the id at the head
\* of the queue and removes it; and the mapping file is written only when
\* no id is left to process.
StageOrdering ==
  [][ /\ (pc = "load" \/ disk' # disk) =>
           (sourcesIngested /\ topLevelMap' = topLevelMap
                            /\ codeListMap' = codeListMap)
      /\ pc = "load" => (built = Null /\ headInOrder)
      /\ disk' # disk =>
           ( /\ pc = "emit"
             /\ headInOrder
             /\ todo' = Tail(todo)
             /\ \A id \in DOMAIN disk' :
                  id # Head(todo) => (id \in DOMAIN disk /\ disk'[id] = disk[id]) )
      /\ mappingFile' # mappingFile =>
           (pc = "writeMapping" /\ todo = <<>> /\ built = Null
              /\ sourcesIngested
              /\ counts.created + counts.merged + counts.skipped
                   = Cardinality(allIds)) ]_vars

\* A run that has processed three ids and written its mapping file.
StageOrderingWitness ==
  /\ pc = "done"
  /\ Cardinality(allIds) = 3
  /\ counts.created + counts.merged + counts.skipped = 3
  /\ counts.created + counts.merged >= 2
  /\ mappingFile # Null


\* The ids that have or had a record file in the output directory.
recordIds == DOMAIN disk \cup DOMAIN diskAtStart

\* C25: output frame.  A step of a run changes the output directory only by
\* writing the record of the id in progress, which is an id of an ingested
\* source and whose built record has at least one concept, and it leaves
\* every other file as it was; so at every moment of a run a record that
\* differs from the one the run found (or that the run did not find) is of
\* an id of the ingested sources, already processed, and has at least one
\* concept: the records of ids absent from the sources and of skipped ids
\* are the ones the run found.
OutputFrame ==
  /\ [][ disk' # disk =>
           /\ pc = "emit"
           /\ Head(todo) \in allIds
           /\ Len(built[1].cs.concept) > 0
           /\ DOMAIN disk' = DOMAIN disk \cup {Head(todo)}
           /\ \A id \in DOMAIN disk : id # Head(todo) => disk'[id] = disk[id] ]_vars
  /\ [](\A id \in recordIds :
          ~untouched(id) =>
            /\ id \in allIds \ remaining
            /\ disk[id].kind = "json"
            /\ Len(disk[id].value.concept) > 0)

\* A finished run that wrote a record, skipped an id, and found the record
\* of an id that is in no source: that record is the one it found.
OutputFrameWitness ==
  /\ pc = "done"
  /\ counts.skipped >= 1
  /\ \E id \in DOMAIN disk : ~untouched(id)
  /\ \E id \in DOMAIN diskAtStart : id \notin allIds /\ untouched(id)


(***************************************************************************)
(* Properties of the manifest cache.                                       *)
(***************************************************************************)
\* The step is the end of a fetch of the manifest by call c that failed:
\* the fetch threw, the status was not OK, or the body was not JSON.
fetchFailedFor(c) ==
  \/ calls[c].at = "fetching" /\ calls'[c].at = "files"
  \/ calls[c].at = "parsing" /\ manifestAsset[1].kind # "json"
       /\ calls'[c].at # "parsing"

\* The step is the end of a fetch of the manifest by call c that succeeded.
fetchSucceededFor(c) ==
  /\ calls[c].at = "parsing"
  /\ manifestAsset[1].kind = "json"
  /\ calls'[c].at # "parsing"

\* C26: the manifest cache.  The cache changes only from unset to the list
\* of the manifest, in the step that ends a successful fetch, and never
\* once it is set; a call that begins when the cache is set does not fetch
\* the manifest and works on the cached list, and a call that begins when
\* it is unset fetches; a fetch that fails gives its call the empty list,
\* hence an empty result, and leaves the cache as it was; and every call
\* whose fetch succeeded leaves the cache set, also when several calls
\* fetched at the same time.
ManifestCache ==
  /\ [][ /\ manifestCache' # manifestCache =>
              /\ manifestCache = Null
              /\ manifestCache' = Some(manifestAsset[1].value)
              /\ \E c \in DOMAIN calls : fetchSucceededFor(c)
         /\ \A c \in DOMAIN calls :
              /\ fetchFailedFor(c) =>
                   (calls'[c].manifest = <<>> /\ manifestCache' = manifestCache)
              /\ fetchSucceededFor(c) =>
                   (manifestCache' # Null /\ calls'[c].manifest = manifestCache'[1])
              /\ (calls[c].at = "idle" /\ calls'[c].at # "idle") =>
                   IF manifestCache # Null
                   THEN /\ manifestFetches' = manifestFetches
                        /\ calls'[c].manifest = manifestCache[1]
                        /\ calls'[c].at = "files"
                   ELSE /\ manifestFetches' = manifestFetches + 1
                        /\ calls'[c].at = "fetching" ]_vars
  /\ [](\A c \in DOMAIN calls :
          /\ calls[c].cacheAtStart # Null =>
               (~calls[c].fetched /\ calls[c].manifest = manifestCache[1])
          /\ calls[c].outcome = "parsed" =>
               (manifestCache # Null /\ calls[c].manifest = manifestCache[1])
          /\ (calls[c].at = "returned" /\ calls[c].manifest = <<>>) =>
               calls[c].result = Some(<<>>))

\* Two calls fetched the manifest at the same time and both succeeded, a
\* third call began afterwards and returned from the cache, which is the
\* empty list of an empty manifest.
ManifestCacheWitness ==
  /\ manifestFetches = 2
  /\ manifestCache = Some(<<>>)
  /\ \E c1, c2, c3 \in DOMAIN calls :
       /\ c1 # c2
       /\ calls[c1].outcome = "parsed"
       /\ calls[c2].outcome = "parsed"
       /\ calls[c3].cacheAtStart # Null
       /\ calls[c3].at = "returned"

\* A fetch of the manifest failed, its call returned the empty list, the
\* cache stayed unset and the next call fetched again.
ManifestRefetchWitness ==
  /\ manifestCache = Null
  /\ manifestFetches = 2
  /\ \E c1, c2 \in DOMAIN calls :
       /\ calls[c1].outcome \in {"threw", "notOk", "notJson"}
       /\ calls[c1].result = Some(<<>>)
       /\ calls[c2].at = "fetching"


(***************************************************************************)
(* Properties of the schema validator.                                     *)
(***************************************************************************)
\* The entries of the directory that the validator checks.
checkedFiles ==
  { dirEntries[i] :
      i \in { j \in DOMAIN dirEntries :
                /\ endsWith(dirEntries[j].name, DotJson)
                /\ Head(dirEntries[j].name) # "_" } }

\* https://bind.codes/ followed by a lower-case letter and then lower-case
\* letters, digits and hyphens.
bindCodesUrl(url) ==
  /\ Len(url) > Len(UrlBase)
  /\ SubSeq(url, 1, Len(UrlBase)) = UrlBase
  /\ url[Len(UrlBase) + 1] \in LowerSet
  /\ { url[i] : i \in (Len(UrlBase) + 2)..Len(url) }
       \subseteq LowerSet \cup DigitSet \cup {"-"}

\* A parsed record has one of the defects the validator looks for.
defectiveData(name, data) ==
  \/ \E f \in {"resourceType", "id", "url", "name", "title", "status",
               "description"} : data[f] = Absent
  \/ data.concept.kind = "absent"
  \/ data.resourceType # ResourceTypeCodeSystem
  \/ name # data.id \o DotJson
  \/ ~bindCodesUrl(data.url)
  \/ ~endsWith(data.url, <<"/">> \o data.id)
  \/ data.status \notin VALID_STATUSES
  \/ data.concept.kind # "array"
  \/ Len(data.concept.items) = 0
  \/ \E i \in DOMAIN data.concept.items :
       \/ data.concept.items[i].code \in {Absent, <<>>}
       \/ data.concept.items[i].display \in {Absent, <<>>}
  \/ \E i, j \in DOMAIN data.concept.items :
       i # j /\ data.concept.items[i].code = data.concept.items[j].code

defective(entry) ==
  entry.kind # "json" \/ defectiveData(entry.name, entry.value[1])

ValidatorPassesWitness ==
  /\ pc = "exited"
  /\ validateExit = Some(0)
  /\ Cardinality(passed) = 2

=============================================================================
